---- MODULE Spec2Model ----
(***************************************************************************)
(* Fallen-village: the turn engine of a grid tactics game.  The world is   *)
(* the zustand store (floors, units, phase, timer, action queue, the       *)
(* player's visible and explored tiles, damage events); the host queues    *)
(* intents during DECISION, the timer loop of GameView switches to         *)
(* EXECUTION, the AI planner appends the enemies' intents and the action   *)
(* processor drains the queue step by step, suspending between steps.      *)
(*                                                                         *)
(* Action points are fractional in the program (a diagonal step costs 1.5);*)
(* the model counts them in units of 1/ApScale AP, so every AP quantity    *)
(* below is the program's value times ApScale.                             *)
(***************************************************************************)
EXTENDS Integers, Sequences, FiniteSets, TLC

VARIABLES
    store,      \* the zustand store: useGameStore.getState()
    exec,       \* the action processor's coroutine (executeTurn and its awaits)
    lastOp,     \* the call that produced the current state, where a property asks
    before,     \* what that call started from
    pf,         \* a pathfinding query and its answer
    turns,      \* the drains begun since the last initGame
    direct,     \* the direct store calls made since the last initGame
    gen,        \* a run of generateMap: its loops' position and locals
    ai          \* a planning pass: the world planned on, the plan, the world after

vars == <<store, exec, lastOp, before, pf, turns, direct, gen, ai>>

----------------------------------------------------------------------------
(* Bounds of the model and constants of the program                        *)

MapWidth == 3           \* MAP_WIDTH, scaled down from 20
MapHeight == 3          \* MAP_HEIGHT, scaled down from 20
MaxQueue == 2           \* host intents queued at a time
PlayerMaxHp == 2        \* the player's hp/maxHp, scaled down from 100

FLOORS == 2
ApScale == 2
ATTACK_COST == 3
CLIMB_COST == 3
ATTACK_DAMAGE == 1
TIMER_START == 5
AP_RECOVERY == 5
PLAYER_AP == 10
PLAYER_SIGHT == 10
PLAYER_NOISE == 3
ENEMY_HP == 3
ENEMY_AP == 8
ENEMY_AP_RECOVERY == 4
ENEMY_SIGHT == 7
DEFAULT_NOISE == 3
RAY_COUNT == 180
TRIG_SCALE == 1000

AP(n) == n * ApScale    \* n action points in model units

Seeds == {1, 2}
PlayerId == "player-1"
EnemyId == "biter-0"
UnitIds == {PlayerId, EnemyId}
OtherEnemyId == "biter-1"       \* a second enemy, where a world holds two

Xs == 0 .. (MapWidth - 1)
Ys == 0 .. (MapHeight - 1)
Zs == 0 .. (FLOORS - 1)

Coord(x, y, z) == [x |-> x, y |-> y, floor |-> z]
Coords == {Coord(x, y, z) : x \in Xs, y \in Ys, z \in Zs}
NoPos == [x |-> -1, y |-> -1, floor |-> -1]   \* an absent optional coordinate

Abs(n) == IF n < 0 THEN -n ELSE n
Min(a, b) == IF a < b THEN a ELSE b
Max(a, b) == IF a > b THEN a ELSE b

\* the string key `${x},${y},${floor}` of a coordinate
Key(c) == <<c.x, c.y, c.floor>>

\* ai.ts getDist: Manhattan distance on (x, y), the floor ignored
getDist(a, b) == Abs(a.x - b.x) + Abs(a.y - b.y)

----------------------------------------------------------------------------
(* Map generation.  generateMap draws walls, stairs and enemy tiles from a *)
(* seeded LCG.  For the game the model keeps, per seed, one small world    *)
(* with the relations of a generated one: the start tile at the centre of  *)
(* floor 0 is walkable, STAIRS_UP on floor 0 and STAIRS_DOWN on floor 1    *)
(* share (sx, sy), the enemy stands on a walkable, unoccupied tile of      *)
(* floor 0 away from the centre.  The generator's own loops are modelled   *)
(* step by step further down.                                              *)

CenterX == MapWidth \div 2
CenterY == MapHeight \div 2
StairX == MapWidth - 1
StairY == MapHeight - 1

WallsOf(seed) ==
    IF seed = 1
    THEN {Coord(2, 0, 0), Coord(0, 2, 0),
          Coord(0, 0, 1), Coord(1, 0, 1), Coord(0, 1, 1), Coord(1, 1, 1)}
    ELSE {Coord(0, 0, 0), Coord(0, 1, 0),
          Coord(0, 0, 1), Coord(1, 0, 1), Coord(2, 0, 1), Coord(1, 1, 1)}

EnemyStart(seed) == IF seed = 1 THEN Coord(0, 0, 0) ELSE Coord(2, 0, 0)

TileTypeAt(seed, x, y, z) ==
    IF x = StairX /\ y = StairY
    THEN (IF z = 0 THEN "STAIRS_UP" ELSE "STAIRS_DOWN")
    ELSE IF z = 0 /\ x = CenterX /\ y = CenterY THEN "CONCRETE"
    ELSE IF Coord(x, y, z) \in WallsOf(seed) THEN "WALL"
    ELSE "CONCRETE"

\* TileMetadata of a tile type
Walkable(type) == type # "WALL"
Opacity(type) == IF type = "WALL" THEN 1 ELSE 0

PlayerUnit ==
    [id |-> PlayerId, type |-> "PLAYER", faction |-> "PLAYER",
     position |-> Coord(CenterX, CenterY, 0),
     hp |-> PlayerMaxHp, maxHp |-> PlayerMaxHp,
     ap |-> AP(PLAYER_AP), maxAp |-> AP(PLAYER_AP),
     apRecovery |-> AP(AP_RECOVERY), sightRange |-> PLAYER_SIGHT,
     isInjured |-> FALSE, noiseLevel |-> PLAYER_NOISE, facing |-> "DOWN",
     memState |-> "NONE", lastKnownTargetPos |-> NoPos]

EnemyUnit(seed) ==
    [id |-> EnemyId, type |-> "ENEMY", faction |-> "ENEMY",
     position |-> EnemyStart(seed),
     hp |-> ENEMY_HP, maxHp |-> ENEMY_HP,
     ap |-> AP(ENEMY_AP), maxAp |-> AP(ENEMY_AP),
     apRecovery |-> AP(ENEMY_AP_RECOVERY), sightRange |-> ENEMY_SIGHT,
     isInjured |-> FALSE, noiseLevel |-> -1, facing |-> "DOWN",
     memState |-> "NONE", lastKnownTargetPos |-> NoPos]

generateMap(seed) ==
    [floor |-> [z \in Zs |-> [x \in Xs |-> [y \in Ys |-> TileTypeAt(seed, x, y, z)]]],
     units |-> (PlayerId :> PlayerUnit) @@ (EnemyId :> EnemyUnit(seed))]

----------------------------------------------------------------------------
(* Field of view: calculateSimpleFOV casts a ray every 2 degrees, stepping *)
(* 0.5 tile from the centre of the origin tile.  Positions are counted in  *)
(* 1/(2*TRIG_SCALE) of a tile; CosTable[i] and SinTable[i] are cos and sin *)
(* of 2*(i-1) degrees times TRIG_SCALE.                                    *)

CosTable ==
    << 1000, 999, 998, 995, 990, 985, 978, 970, 961, 951, 940, 927,
       914, 899, 883, 866, 848, 829, 809, 788, 766, 743, 719, 695,
       669, 643, 616, 588, 559, 530, 500, 469, 438, 407, 375, 342,
       309, 276, 242, 208, 174, 139, 105, 70, 35, 0, -35, -70,
       -105, -139, -174, -208, -242, -276, -309, -342, -375, -407, -438, -469,
       -500, -530, -559, -588, -616, -643, -669, -695, -719, -743, -766, -788,
       -809, -829, -848, -866, -883, -899, -914, -927, -940, -951, -961, -970,
       -978, -985, -990, -995, -998, -999, -1000, -999, -998, -995, -990, -985,
       -978, -970, -961, -951, -940, -927, -914, -899, -883, -866, -848, -829,
       -809, -788, -766, -743, -719, -695, -669, -643, -616, -588, -559, -530,
       -500, -469, -438, -407, -375, -342, -309, -276, -242, -208, -174, -139,
       -105, -70, -35, 0, 35, 70, 105, 139, 174, 208, 242, 276,
       309, 342, 375, 407, 438, 469, 500, 530, 559, 588, 616, 643,
       669, 695, 719, 743, 766, 788, 809, 829, 848, 866, 883, 899,
       914, 927, 940, 951, 961, 970, 978, 985, 990, 995, 998, 999 >>

SinTable ==
    << 0, 35, 70, 105, 139, 174, 208, 242, 276, 309, 342, 375,
       407, 438, 469, 500, 530, 559, 588, 616, 643, 669, 695, 719,
       743, 766, 788, 809, 829, 848, 866, 883, 899, 914, 927, 940,
       951, 961, 970, 978, 985, 990, 995, 998, 999, 1000, 999, 998,
       995, 990, 985, 978, 970, 961, 951, 940, 927, 914, 899, 883,
       866, 848, 829, 809, 788, 766, 743, 719, 695, 669, 643, 616,
       588, 559, 530, 500, 469, 438, 407, 375, 342, 309, 276, 242,
       208, 174, 139, 105, 70, 35, 0, -35, -70, -105, -139, -174,
       -208, -242, -276, -309, -342, -375, -407, -438, -469, -500, -530, -559,
       -588, -616, -643, -669, -695, -719, -743, -766, -788, -809, -829, -848,
       -866, -883, -899, -914, -927, -940, -951, -961, -970, -978, -985, -990,
       -995, -998, -999, -1000, -999, -998, -995, -990, -985, -978, -970, -961,
       -951, -940, -927, -914, -899, -883, -866, -848, -829, -809, -788, -766,
       -743, -719, -695, -669, -643, -616, -588, -559, -530, -500, -469, -438,
       -407, -375, -342, -309, -276, -242, -208, -174, -139, -105, -70, -35 >>

InBounds(x, y) == x >= 0 /\ x < MapWidth /\ y >= 0 /\ y < MapHeight

\* the tile under the k-th step of ray i from origin, as <<tx, ty>>
RayTile(origin, i, k) ==
    << (2 * TRIG_SCALE * origin.x + TRIG_SCALE + k * CosTable[i]) \div (2 * TRIG_SCALE),
       (2 * TRIG_SCALE * origin.y + TRIG_SCALE + k * SinTable[i]) \div (2 * TRIG_SCALE) >>

\* the tiles ray i reveals from its k-th step on: it stops out of bounds,
\* behind an opaque tile (which it reveals) and after 2*range steps
RECURSIVE CastRay(_, _, _, _, _)
CastRay(origin, range, floorMap, i, k) ==
    IF k > 2 * range THEN {}
    ELSE LET t == RayTile(origin, i, k) IN
         IF ~InBounds(t[1], t[2]) THEN {}
         ELSE {<<t[1], t[2], origin.floor>>} \cup
              (IF Opacity(floorMap[t[1]][t[2]]) >= 1 THEN {}
               ELSE CastRay(origin, range, floorMap, i, k + 1))

\* calculateSimpleFOV with the floor left out of the key, as calculateFOV's
\* keys are: every key reads as a tile of floor 0
calculateSimpleFOVGround(origin, range, floorData) ==
    IF origin.floor \notin DOMAIN floorData THEN {}
    ELSE {<<origin.x, origin.y, 0>>} \cup
         {<<t[1], t[2], 0>> :
            t \in UNION {CastRay(origin, range, floorData[origin.floor], i, 1) :
                            i \in 1 .. RAY_COUNT}}

calculateSimpleFOV(origin, range, floorData) ==
    IF origin.floor \notin DOMAIN floorData THEN {}
    ELSE {Key(origin)} \cup
         UNION {CastRay(origin, range, floorData[origin.floor], i, 1) : i \in 1 .. RAY_COUNT}

----------------------------------------------------------------------------
(* Pathfinding: 8-way A* on one floor.  A node of the open list carries    *)
(* the waypoints from the start to itself in place of the parent pointer:  *)
(* a node's parent is a closed node, whose own chain never changes again.  *)

NoPath == << >>         \* findPath's null

\* DIRECTIONS as <<dx, dy, cost>>: 1.0 straight, 1.5 diagonal
DIRECTIONS ==
    << <<1, 0, AP(2) \div 2>>,  <<1, 1, AP(3) \div 2>>,
       <<0, 1, AP(2) \div 2>>,  <<-1, 1, AP(3) \div 2>>,
       <<-1, 0, AP(2) \div 2>>, <<-1, -1, AP(3) \div 2>>,
       <<0, -1, AP(2) \div 2>>, <<1, -1, AP(3) \div 2>> >>

\* a heuristic that overestimates: four times the Manhattan distance
getHeuristicGreedy(a, b) == AP(4 * (Abs(a.x - b.x) + Abs(a.y - b.y)))

\* octile distance (dx + dy) + (1.5 - 2) * min(dx, dy)
getHeuristic(a, b) ==
    LET dx == Abs(a.x - b.x)
        dy == Abs(a.y - b.y)
    IN  AP(dx + dy) - (AP(1) \div 2) * Min(dx, dy)

\* openList.sort((a, b) => a.f - b.f): a stable sort by f
RECURSIVE InsertByF(_, _)
InsertByF(sorted, n) ==
    IF sorted = << >> THEN <<n>>
    ELSE IF Head(sorted).f <= n.f THEN <<Head(sorted)>> \o InsertByF(Tail(sorted), n)
    ELSE <<n>> \o sorted

RECURSIVE SortByF(_)
SortByF(list) ==
    IF list = << >> THEN << >>
    ELSE InsertByF(SortByF(SubSeq(list, 1, Len(list) - 1)), list[Len(list)])

\* the index in the open list of the node at (x, y), 0 when there is none
OpenIndex(open, x, y) ==
    IF \E i \in 1 .. Len(open) : open[i].x = x /\ open[i].y = y
    THEN CHOOSE i \in 1 .. Len(open) : open[i].x = x /\ open[i].y = y
    ELSE 0

\* One neighbour of `current`.  rule[<<x, y>>] is what the units on a tile do
\* to a step onto it: 0 leaves the direction's cost, a positive number is the
\* step's cost, -1 skips the neighbour.
Relax(dir, current, open, closed, end, z, floorMap, rule) ==
    LET nx == current.x + dir[1]
        ny == current.y + dir[2]
    IN  IF ~InBounds(nx, ny) THEN open
        ELSE IF ~Walkable(floorMap[nx][ny]) THEN open
        ELSE IF <<nx, ny>> \in closed THEN open
        ELSE IF rule[<<nx, ny>>] < 0 THEN open
        ELSE LET moveCost == IF rule[<<nx, ny>>] > 0 THEN rule[<<nx, ny>>] ELSE dir[3]
                 gScore == current.g + moveCost
                 hScore == getHeuristic(Coord(nx, ny, z), end)
                 i == OpenIndex(open, nx, ny)
                 way == Append(current.path, Coord(nx, ny, z))
             IN  IF i # 0
                 THEN IF gScore < open[i].g
                      THEN [open EXCEPT ![i] = [x |-> nx, y |-> ny,
                                                f |-> gScore + open[i].h,
                                                g |-> gScore, h |-> open[i].h,
                                                path |-> way]]
                      ELSE open
                 ELSE Append(open, [x |-> nx, y |-> ny, f |-> gScore + hScore,
                                    g |-> gScore, h |-> hScore, path |-> way])

RECURSIVE Neighbours(_, _, _, _, _, _, _, _)
Neighbours(d, current, open, closed, end, z, floorMap, rule) ==
    IF d > Len(DIRECTIONS) THEN open
    ELSE Neighbours(d + 1, current,
                    Relax(DIRECTIONS[d], current, open, closed, end, z, floorMap, rule),
                    closed, end, z, floorMap, rule)

RECURSIVE Search(_, _, _, _, _, _)
Search(openList, closedSet, end, z, floorMap, rule) ==
    IF openList = << >> THEN NoPath
    ELSE LET sorted == SortByF(openList)
             current == Head(sorted)
             key == <<current.x, current.y>>
         IN  IF current.x = end.x /\ current.y = end.y THEN current.path
             ELSE IF key \in closedSet
                  THEN Search(Tail(sorted), closedSet, end, z, floorMap, rule)
                  ELSE Search(Neighbours(1, current, Tail(sorted), closedSet \cup {key},
                                         end, z, floorMap, rule),
                              closedSet \cup {key}, end, z, floorMap, rule)

StartNode(start) ==
    [x |-> start.x, y |-> start.y, f |-> 0, g |-> 0, h |-> 0,
     path |-> <<Coord(start.x, start.y, start.floor)>>]

Tiles == {<<x, y>> : x \in Xs, y \in Ys}

\* the checks all revisions make before the search: the floor exists, the end
\* is in bounds and walkable
EndReachable(start, end, floorData) ==
    /\ start.floor \in DOMAIN floorData
    /\ InBounds(end.x, end.y)
    /\ Walkable(floorData[start.floor][end.x][end.y])

\* pathfinding.ts: findPath(start, end, floorData), static obstacles only
findPathStatic(start, end, floorData) ==
    IF ~EndReachable(start, end, floorData) THEN NoPath
    ELSE Search(<<StartNode(start)>>, {}, end, start.floor,
                floorData[start.floor], [t \in Tiles |-> 0])

\* the revision with dynamicObstacles: a step onto an occupied tile costs 2.0,
\* an occupied end has no path
OccupiedCost == AP(2)

findPathObstacles(start, end, floorData, dynamicObstacles) ==
    IF ~EndReachable(start, end, floorData) THEN NoPath
    ELSE IF \E b \in dynamicObstacles :
                b.x = end.x /\ b.y = end.y /\ b.floor = start.floor
         THEN NoPath
         ELSE Search(<<StartNode(start)>>, {}, end, start.floor, floorData[start.floor],
                     [t \in Tiles |->
                        IF \E b \in dynamicObstacles :
                              b.x = t[1] /\ b.y = t[2] /\ b.floor = start.floor
                        THEN OccupiedCost ELSE 0])

\* the current signature findPath(start, end, floorData, units, moverId): a
\* tile held by another unit is skipped, except that the PLAYER may cross an
\* ENEMY's tile that is not the end, at step cost 3.0
PassThroughCost == AP(3)

UnitsAt(units, x, y, z, moverId) ==
    {id \in DOMAIN units :
        /\ id # moverId
        /\ units[id].position.x = x
        /\ units[id].position.y = y
        /\ units[id].position.floor = z}

MoverIsPlayer(units, moverId) ==
    moverId \in DOMAIN units /\ units[moverId].type = "PLAYER"

findPath(start, end, floorData, units, moverId) ==
    IF ~EndReachable(start, end, floorData) THEN NoPath
    ELSE Search(<<StartNode(start)>>, {}, end, start.floor, floorData[start.floor],
                [t \in Tiles |->
                    LET occ == UnitsAt(units, t[1], t[2], start.floor, moverId) IN
                    IF occ = {} THEN 0
                    ELSE IF t[1] = end.x /\ t[2] = end.y THEN -1
                    ELSE IF MoverIsPlayer(units, moverId)
                            /\ \A id \in occ : units[id].type = "ENEMY"
                         THEN PassThroughCost
                         ELSE -1])

----------------------------------------------------------------------------
(* The store and its mutators.  Each mutator is an operator from the store *)
(* to the store, as zustand's set((state) => ...) is.                      *)

initialState ==
    [floor |-> << >>, units |-> << >>, phase |-> "DECISION", timer |-> TIMER_START,
     actionQueue |-> << >>, seed |-> 0,
     visibleTiles |-> {}, exploredTiles |-> {}, damageEvents |-> << >>]

PlayerIds(units) == {id \in DOMAIN units : units[id].type = "PLAYER"}

\* RecomputeFOV without the merge: exploredTiles is left as it was
RecomputeFOVNoMerge(s) ==
    IF PlayerId \notin DOMAIN s.units THEN s
    ELSE [s EXCEPT !.visibleTiles =
             calculateSimpleFOV(s.units[PlayerId].position,
                                s.units[PlayerId].sightRange, s.floor)]

\* RecomputeFOV with exploredTiles replaced by the new field of view
RecomputeFOVReplace(s) ==
    IF PlayerId \notin DOMAIN s.units THEN s
    ELSE [s EXCEPT !.visibleTiles =
             calculateSimpleFOV(s.units[PlayerId].position,
                                s.units[PlayerId].sightRange, s.floor),
                   !.exploredTiles =
             calculateSimpleFOV(s.units[PlayerId].position,
                                s.units[PlayerId].sightRange, s.floor)]

\* the player's field of view replaces visibleTiles and is merged into
\* exploredTiles
RecomputeFOV(s) ==
    IF PlayerId \notin DOMAIN s.units THEN s
    ELSE LET p == s.units[PlayerId]
             seen == calculateSimpleFOV(p.position, p.sightRange, s.floor)
         IN  [s EXCEPT !.visibleTiles = seen,
                       !.exploredTiles = s.exploredTiles \cup seen]

initGame(seed) ==
    LET world == generateMap(seed) IN
    RecomputeFOV([initialState EXCEPT !.seed = seed,
                                      !.floor = world.floor,
                                      !.units = world.units])

\* Math.min(unit.status.maxAp, unit.status.ap + 5)
RecoverAp(unit) ==
    [unit EXCEPT !.ap = Min(unit.maxAp, unit.ap + AP(AP_RECOVERY))]

setPhase(s, phase) ==
    IF phase = "DECISION"
    THEN [s EXCEPT !.phase = phase,
                   !.units = [id \in DOMAIN s.units |-> RecoverAp(s.units[id])]]
    ELSE [s EXCEPT !.phase = phase]

\* a timer without the clamp
updateTimerUnclamped(s, deltaTime) ==
    IF s.phase # "DECISION" THEN s
    ELSE [s EXCEPT !.timer = s.timer - deltaTime]

\* a timer that stops short of zero
updateTimerShort(s, deltaTime) ==
    IF s.phase # "DECISION" THEN s
    ELSE [s EXCEPT !.timer = Max(1, s.timer - deltaTime)]

updateTimer(s, deltaTime) ==
    IF s.phase # "DECISION" THEN s
    ELSE [s EXCEPT !.timer = Max(0, s.timer - deltaTime)]

\* a position update that leaves the field of view as it was
updateUnitPositionBlind(s, unitId, position) ==
    IF unitId \notin DOMAIN s.units THEN s
    ELSE [s EXCEPT !.units[unitId].position = position]

updateUnitPosition(s, unitId, position) ==
    IF unitId \notin DOMAIN s.units THEN s
    ELSE LET moved == [s EXCEPT !.units[unitId].position = position] IN
         IF s.units[unitId].type = "PLAYER" THEN RecomputeFOV(moved) ELSE moved

\* { ...unit.status, ...status }: the fields of `status` replace the unit's
updateUnitStatus(s, unitId, status) ==
    IF unitId \notin DOMAIN s.units THEN s
    ELSE [s EXCEPT !.units[unitId] =
             [f \in DOMAIN s.units[unitId] |->
                 IF f \in DOMAIN status THEN status[f] ELSE s.units[unitId][f]]]

\* a queueAction that takes what AP there is when the cost is higher
queueActionClamped(s, action) ==
    IF action.cost > 0 /\ action.unitId \in DOMAIN s.units
    THEN [s EXCEPT !.actionQueue = Append(s.actionQueue, action),
                   !.units[action.unitId].ap = Max(0, @ - action.cost)]
    ELSE [s EXCEPT !.actionQueue = Append(s.actionQueue, action)]

queueAction(s, action) ==
    IF action.cost > 0 /\ action.unitId \in DOMAIN s.units
    THEN IF s.units[action.unitId].ap < action.cost
         THEN s
         ELSE [s EXCEPT !.actionQueue = Append(s.actionQueue, action),
                        !.units[action.unitId].ap = @ - action.cost]
    ELSE [s EXCEPT !.actionQueue = Append(s.actionQueue, action)]

\* cancelAction without the refund
cancelActionNoRefund(s) ==
    IF Len(s.actionQueue) = 0 THEN s
    ELSE [s EXCEPT !.actionQueue = SubSeq(s.actionQueue, 1, Len(s.actionQueue) - 1)]

cancelAction(s) ==
    IF Len(s.actionQueue) = 0 THEN s
    ELSE LET lastAction == s.actionQueue[Len(s.actionQueue)]
             newQueue == SubSeq(s.actionQueue, 1, Len(s.actionQueue) - 1)
         IN  IF lastAction.cost > 0 /\ lastAction.unitId \in DOMAIN s.units
             THEN [s EXCEPT !.actionQueue = newQueue,
                            !.units[lastAction.unitId].ap = @ + lastAction.cost]
             ELSE [s EXCEPT !.actionQueue = newQueue]

clearActionQueue(s) == [s EXCEPT !.actionQueue = << >>]

\* hp <- hp - amount; at hp <= 0 the unit leaves the map, otherwise isInjured
\* follows hp < maxHp / 2 and a DamageEvent is appended
Without(units, unitId) == [id \in DOMAIN units \ {unitId} |-> units[id]]

applyDamage(s, unitId, amount) ==
    IF unitId \notin DOMAIN s.units THEN s
    ELSE LET unit == s.units[unitId]
             newHp == unit.hp - amount
         IN  IF newHp <= 0
             THEN [s EXCEPT !.units = Without(s.units, unitId)]
             ELSE [s EXCEPT !.units[unitId].hp = newHp,
                            !.units[unitId].isInjured = (2 * newHp < unit.maxHp),
                            !.damageEvents =
                                Append(@, [amount |-> amount])]

----------------------------------------------------------------------------
(* The AI planner, decideEnemyActions.  It writes each enemy's memory      *)
(* (state, lastKnownTargetPos) into the unit and returns the intents.      *)
(* Math.random is the planner's only input besides the game state: rnd     *)
(* gives, per enemy, the offset a WANDER draw ends on, <<0, 0>> when the    *)
(* three tries find no tile.                                               *)

Act(type, unitId, target, targetUnitId, cost) ==
    [type |-> type, unitId |-> unitId, target |-> target,
     targetUnitId |-> targetUnitId, cost |-> cost]

\* Object.values(units): the insertion order of generateMap
UnitOrder == <<PlayerId, EnemyId, OtherEnemyId>>
Living(units, kind) ==
    SelectSeq(UnitOrder, LAMBDA id : id \in DOMAIN units /\ units[id].faction = kind)

WanderChoices == {<<dx, dy>> : dx \in -1 .. 1, dy \in -1 .. 1}

\* the 120-degree cone: the normalised dot product with the facing is >= 0.3
canSee(observer, target) ==
    LET dx == target.x - observer.position.x
        dy == target.y - observer.position.y
        dirX == CASE observer.facing = "LEFT" -> -1
                  [] observer.facing = "RIGHT" -> 1
                  [] OTHER -> 0
        dirY == CASE observer.facing = "UP" -> -1
                  [] observer.facing \in {"LEFT", "RIGHT"} -> 0
                  [] OTHER -> 1
        dot == dx * dirX + dy * dirY
    IN  IF getDist(observer.position, target) > observer.sightRange THEN FALSE
        ELSE IF dx = 0 /\ dy = 0 THEN TRUE
        ELSE dot > 0 /\ 100 * dot * dot >= 9 * (dx * dx + dy * dy)

\* target.status.noiseLevel || 3
NoiseOf(unit) == IF unit.noiseLevel > 0 THEN unit.noiseLevel ELSE DEFAULT_NOISE

\* the offsets of the ring of radius r, dx outermost, dy innermost
Ring(r) ==
    SelectSeq([k \in 1 .. (2 * r + 1) * (2 * r + 1) |->
                  <<((k - 1) \div (2 * r + 1)) - r, ((k - 1) % (2 * r + 1)) - r>>],
              LAMBDA d : Abs(d[1]) = r \/ Abs(d[2]) = r)
SpiralOffsets == Ring(0) \o Ring(1) \o Ring(2)

\* a search that looks at no reservation
SpiralSearchAny(dest, currentFloor, reserved) ==
    LET free == SelectSeq(SpiralOffsets, LAMBDA d :
                    /\ InBounds(dest.x + d[1], dest.y + d[2])
                    /\ Walkable(currentFloor[dest.x + d[1]][dest.y + d[2]]))
    IN  IF free = << >> THEN NoPos
        ELSE Coord(dest.x + free[1][1], dest.y + free[1][2], dest.floor)

\* the first walkable, in-bounds, unreserved tile around dest, NoPos if none
SpiralSearch(dest, currentFloor, reserved) ==
    LET free == SelectSeq(SpiralOffsets, LAMBDA d :
                    /\ InBounds(dest.x + d[1], dest.y + d[2])
                    /\ Walkable(currentFloor[dest.x + d[1]][dest.y + d[2]])
                    /\ <<dest.x + d[1], dest.y + d[2]>> \notin reserved)
    IN  IF free = << >> THEN NoPos
        ELSE Coord(dest.x + free[1][1], dest.y + free[1][2], dest.floor)

\* the walk along the path with no regard to the AP
BudgetAll(path, i, targetPos, currentAp, costAccumulated, reachIndex) ==
    <<AP(Len(path) - 1), Len(path)>>

\* the path walked while the AP last: <<costAccumulated, reachIndex>>
RECURSIVE Budget(_, _, _, _, _, _)
Budget(path, i, targetPos, currentAp, costAccumulated, reachIndex) ==
    IF i > Len(path) THEN <<costAccumulated, reachIndex>>
    ELSE IF path[i].x = targetPos.x /\ path[i].y = targetPos.y
         THEN <<costAccumulated, reachIndex>>
         ELSE LET isDiagonal == path[i - 1].x # path[i].x /\ path[i - 1].y # path[i].y
                  stepCost == IF isDiagonal THEN AP(3) \div 2 ELSE AP(2) \div 2
              IN  IF currentAp >= costAccumulated + stepCost
                  THEN Budget(path, i + 1, targetPos, currentAp,
                              costAccumulated + stepCost, i)
                  ELSE <<costAccumulated, reachIndex>>

\* a transition that gives the search up as soon as contact is lost
TransitionForgets(enemy, isDetected, predictedTargetPos) ==
    IF isDetected
    THEN [enemy EXCEPT !.memState = "CHASE", !.lastKnownTargetPos = predictedTargetPos]
    ELSE [enemy EXCEPT !.memState = "WANDER", !.lastKnownTargetPos = NoPos]

\* a transition that gives up a search without clearing what it searched for
TransitionKeeps(enemy, isDetected, predictedTargetPos) ==
    IF isDetected
    THEN [enemy EXCEPT !.memState = "CHASE", !.lastKnownTargetPos = predictedTargetPos]
    ELSE IF enemy.memState = "CHASE" THEN [enemy EXCEPT !.memState = "SEARCH"]
    ELSE IF /\ enemy.memState = "SEARCH"
            /\ enemy.position.x = enemy.lastKnownTargetPos.x
            /\ enemy.position.y = enemy.lastKnownTargetPos.y
         THEN [enemy EXCEPT !.memState = "WANDER"]
         ELSE [enemy EXCEPT !.memState = IF @ = "NONE" THEN "WANDER" ELSE @]

\* the state transition of one enemy's memory
Transition(enemy, isDetected, predictedTargetPos) ==
    LET state == IF enemy.memState = "NONE" THEN "WANDER" ELSE enemy.memState IN
    IF isDetected
    THEN [enemy EXCEPT !.memState = "CHASE", !.lastKnownTargetPos = predictedTargetPos]
    ELSE IF state = "CHASE" THEN [enemy EXCEPT !.memState = "SEARCH"]
    ELSE IF /\ state = "SEARCH"
            /\ enemy.lastKnownTargetPos # NoPos
            /\ enemy.position.x = enemy.lastKnownTargetPos.x
            /\ enemy.position.y = enemy.lastKnownTargetPos.y
         THEN [enemy EXCEPT !.memState = "WANDER", !.lastKnownTargetPos = NoPos]
         ELSE [enemy EXCEPT !.memState = state]

\* the MOVE of an enemy that walks `walk` = <<costAccumulated, reachIndex>>
\* along path, and the ATTACK after it when the AP left and the distance allow
Intents(enemy, target, predictedTargetPos, path, walk, actualDest) ==
    IF walk[2] > 0 /\ (actualDest.x # enemy.position.x \/ actualDest.y # enemy.position.y)
    THEN <<Act("MOVE", enemy.id, actualDest, "", walk[1])>> \o
         (IF /\ enemy.ap - walk[1] >= AP(ATTACK_COST)
             /\ getDist(actualDest, predictedTargetPos) <= 1
          THEN <<Act("ATTACK", enemy.id, NoPos, target.id, AP(ATTACK_COST))>>
          ELSE << >>)
    ELSE << >>

Walked(enemy, target, predictedTargetPos, path, walk) ==
    Intents(enemy, target, predictedTargetPos, path, walk,
            IF walk[2] = 0 THEN enemy.position ELSE path[walk[2]])

\* the simulation of the movement along path
Simulate(enemy, target, predictedTargetPos, path) ==
    Walked(enemy, target, predictedTargetPos, path,
           IF path = NoPath THEN <<0, 0>>
           ELSE Budget(path, 2, target.position, enemy.ap, 0, 0))

\* the movement intents of one enemy towards validDest, the tile the spiral
\* search reserved for it; all units are dynamic obstacles of the path
Reserved(enemy, validDest, target, predictedTargetPos, currentFloor, units, reserved) ==
    IF validDest = NoPos
    THEN [actions |-> << >>, reserved |-> reserved, found |-> << >>]
    ELSE [actions |->
            Simulate(enemy, target, predictedTargetPos,
                     findPathObstacles(enemy.position, validDest, (0 :> currentFloor),
                                       {units[id].position : id \in DOMAIN units})),
          reserved |-> reserved \cup {<<validDest.x, validDest.y>>},
          found |-> << >>]

\* found records, for the properties, the dest and the validDest of the enemy
MoveIntents(enemy, dest, target, predictedTargetPos, currentFloor, units, reserved) ==
    [Reserved(enemy, SpiralSearch(dest, currentFloor, reserved), target,
              predictedTargetPos, currentFloor, units, reserved)
     EXCEPT !.found = <<[unitId |-> enemy.id, dest |-> dest,
                         validDest |-> SpiralSearch(dest, currentFloor, reserved)]>>]

\* the destination of an enemy after its state transition, NoPos if none
Destination(enemy, currentFloor, choice) ==
    IF enemy.memState \in {"CHASE", "SEARCH"} THEN enemy.lastKnownTargetPos
    ELSE IF /\ choice # <<0, 0>>
            /\ InBounds(enemy.position.x + choice[1], enemy.position.y + choice[2])
            /\ Walkable(currentFloor[enemy.position.x + choice[1]]
                                    [enemy.position.y + choice[2]])
         THEN Coord(enemy.position.x + choice[1], enemy.position.y + choice[2],
                    enemy.position.floor)
         ELSE NoPos

Merge(acc, units, m) ==
    [actions |-> acc.actions \o m.actions, reserved |-> m.reserved, units |-> units,
     found |-> acc.found \o m.found]

\* a decision whose ATTACK does not end the enemy's turn
DecideAlsoMoves(acc, enemy, units, target, predictedTargetPos, currentFloor, dest) ==
    LET struck == IF /\ getDist(enemy.position, target.position) = 1
                     /\ enemy.ap >= AP(ATTACK_COST)
                     /\ getDist(enemy.position, predictedTargetPos) <= 1
                  THEN [acc EXCEPT !.actions =
                           Append(@, Act("ATTACK", enemy.id, NoPos, target.id,
                                         AP(ATTACK_COST)))]
                  ELSE acc
    IN  IF dest = NoPos THEN [struck EXCEPT !.units = units]
        ELSE Merge(struck, units,
                   MoveIntents(enemy, dest, target, predictedTargetPos, currentFloor,
                               units, struck.reserved))

\* a decision that takes the cost of the ATTACK from the enemy at once
DecideDebits(acc, enemy, units, target, predictedTargetPos, currentFloor, dest) ==
    IF /\ getDist(enemy.position, target.position) = 1
       /\ enemy.ap >= AP(ATTACK_COST)
       /\ getDist(enemy.position, predictedTargetPos) <= 1
    THEN [acc EXCEPT !.units = [units EXCEPT ![enemy.id].ap = @ - AP(ATTACK_COST)],
                     !.actions = Append(@, Act("ATTACK", enemy.id, NoPos, target.id,
                                               AP(ATTACK_COST)))]
    ELSE IF dest = NoPos THEN [acc EXCEPT !.units = units]
    ELSE Merge(acc, units,
               MoveIntents(enemy, dest, target, predictedTargetPos, currentFloor,
                           units, acc.reserved))

\* the action decision of one enemy, after its state transition
Decide(acc, enemy, units, target, predictedTargetPos, currentFloor, dest) ==
    IF /\ getDist(enemy.position, target.position) = 1
       /\ enemy.ap >= AP(ATTACK_COST)
       /\ getDist(enemy.position, predictedTargetPos) <= 1
    THEN [acc EXCEPT !.units = units,
                     !.actions = Append(@, Act("ATTACK", enemy.id, NoPos, target.id,
                                               AP(ATTACK_COST)))]
    ELSE IF dest = NoPos THEN [acc EXCEPT !.units = units]
    ELSE Merge(acc, units,
               MoveIntents(enemy, dest, target, predictedTargetPos, currentFloor,
                           units, acc.reserved))

Sensed(acc, enemy, target, predictedTargetPos, currentFloor, choice) ==
    Decide(acc, enemy, [acc.units EXCEPT ![enemy.id] = enemy], target,
           predictedTargetPos, currentFloor, Destination(enemy, currentFloor, choice))

\* the sensors: the target is visible, or audible
Detected(enemy, target) ==
    \/ canSee(enemy, target.position)
    \/ getDist(enemy.position, target.position) <= NoiseOf(target)

\* one enemy's turn of the forEach: acc is [actions, reserved, units]
PlanEnemy(acc, enemyId, target, predictedTargetPos, currentFloor, choice) ==
    Sensed(acc,
           Transition(acc.units[enemyId], Detected(acc.units[enemyId], target),
                      predictedTargetPos),
           target, predictedTargetPos, currentFloor, choice)

RECURSIVE PlanAll(_, _, _, _, _, _)
PlanAll(acc, enemies, target, predictedTargetPos, currentFloor, rnd) ==
    IF enemies = << >> THEN acc
    ELSE PlanAll(PlanEnemy(acc, Head(enemies), target, predictedTargetPos,
                           currentFloor, rnd[Head(enemies)]),
                 Tail(enemies), target, predictedTargetPos, currentFloor, rnd)

\* the player's first queued MOVE, << >> if none
FirstMoveOf(queue, unitId) ==
    SelectSeq(queue, LAMBDA a : a.unitId = unitId /\ a.type = "MOVE")

\* predictedTargetPos: the target of the player's queued MOVE, if any
Predicted(target, playerAction) ==
    IF playerAction # << >> /\ playerAction[1].target # NoPos
    THEN playerAction[1].target
    ELSE target.position

PlanFor(gameState, players, enemies, target, rnd) ==
    PlanAll([actions |-> << >>,
             reserved |-> {<<gameState.units[players[i]].position.x,
                             gameState.units[players[i]].position.y>> :
                              i \in 1 .. Len(players)},
             units |-> gameState.units,
             found |-> << >>],
            enemies, target,
            Predicted(target, FirstMoveOf(gameState.actionQueue, target.id)),
            gameState.floor[0], rnd)

Planned(done) == [actions |-> done.actions, units |-> done.units]

Targeting(gameState, players, rnd) ==
    IF players = << >> \/ 0 \notin DOMAIN gameState.floor
    THEN [actions |-> << >>, units |-> gameState.units]
    ELSE Planned(PlanFor(gameState, players, Living(gameState.units, "ENEMY"),
                         gameState.units[players[1]], rnd))

decideEnemyActions(gameState, rnd) ==
    Targeting(gameState, Living(gameState.units, "PLAYER"), rnd)

----------------------------------------------------------------------------
(* Entering EXECUTION: the planner runs on the store and its intents are   *)
(* queued behind what the queue already holds, each debited as queued.     *)

RECURSIVE QueueAll(_, _)
QueueAll(s, actions) ==
    IF actions = << >> THEN s
    ELSE QueueAll(queueAction(s, Head(actions)), Tail(actions))

splice(s, plan) ==
    QueueAll([setPhase(s, "EXECUTION") EXCEPT !.units = plan.units], plan.actions)

enterExecution(s, rnd) == splice(s, decideEnemyActions(s, rnd))

----------------------------------------------------------------------------
(* The action processor.  executeTurn is an async function: it runs until  *)
(* the next `await wait(STEP_DELAY_MS)` and is resumed from there.  exec    *)
(* is its frame: the copied queue, the index of the action in progress,    *)
(* the suspension point (stage), and the locals alive across it.  started  *)
(* lists the indices of the actions begun so far and hostLen is the        *)
(* length the queue had before the planner's intents were appended.        *)

IdleExec ==
    [pc |-> "idle", queue |-> << >>, idx |-> 0, stage |-> "none",
     path |-> << >>, i |-> 0, mover |-> "", moverType |-> "",
     started |-> << >>, hostLen |-> 0]

PendingExec(hostLen) == [IdleExec EXCEPT !.pc = "pending", !.hostLen = hostLen]

\* endExecution without the timer reset
endExecutionKeepTimer(s) == setPhase(clearActionQueue(s), "DECISION")

endExecution(s) ==
    [setPhase(clearActionQueue(s), "DECISION") EXCEPT !.timer = TIMER_START]

\* after the loop: useGameStore.setState({ actionQueue: [] }); endExecution()
Finish(s, e) ==
    [store |-> endExecution([s EXCEPT !.actionQueue = << >>]),
     exec |-> [IdleExec EXCEPT !.queue = e.queue, !.started = e.started,
                               !.hostLen = e.hostLen]]

\* a loop that steps over every other element
NextIndexSkip(idx) == idx + 2

\* the for-of loop's next element
NextIndex(idx) == idx + 1

\* the first unit other than the mover standing on nextPos, "" if none
Blocker(units, moverId, nextPos) ==
    LET found == SelectSeq(UnitOrder, LAMBDA id :
                     /\ id \in DOMAIN units
                     /\ id # moverId
                     /\ units[id].position = nextPos)
    IN  IF found = << >> THEN "" ELSE found[1]

\* executeAttackAction's checks before the swing
\* a range check one tile too wide
AttackInRangeTwo(dist) == dist <= 2

AttackInRange(dist) == dist <= 1

AttackProceeds(s, action) ==
    /\ action.targetUnitId # ""
    /\ action.unitId \in DOMAIN s.units
    /\ action.targetUnitId \in DOMAIN s.units
    /\ s.units[action.unitId].position.floor = s.units[action.targetUnitId].position.floor
    /\ AttackInRange(getDist(s.units[action.unitId].position,
                             s.units[action.targetUnitId].position))

\* a CLIMB that asks for no stairs under the unit
ClimbTargetAnyTile(s, action) ==
    IF action.unitId \notin DOMAIN s.units THEN NoPos
    ELSE LET pos == s.units[action.unitId].position
         IN  Coord(pos.x, pos.y,
                   IF (pos.floor + 1) \in DOMAIN s.floor THEN pos.floor + 1
                   ELSE pos.floor - 1)

\* executeClimbAction's target, NoPos when the CLIMB returns without moving
ClimbTarget(s, action) ==
    IF action.unitId \notin DOMAIN s.units THEN NoPos
    ELSE LET pos == s.units[action.unitId].position
             tile == s.floor[pos.floor][pos.x][pos.y]
             targetFloor == CASE tile = "STAIRS_UP" -> pos.floor + 1
                              [] tile = "STAIRS_DOWN" -> pos.floor - 1
                              [] OTHER -> -1
         IN  IF tile \notin {"STAIRS_UP", "STAIRS_DOWN"} THEN NoPos
             ELSE IF targetFloor \notin DOMAIN s.floor THEN NoPos
             ELSE Coord(pos.x, pos.y, targetFloor)

RECURSIVE RunFrom(_, _, _)
RECURSIVE MoveLoop(_, _)

\* a loop that commits the last waypoint at once
MoveLoopLeap(s, e) ==
    IF e.i > Len(e.path) THEN RunFrom(s, e, NextIndex(e.idx))
    ELSE [store |-> updateUnitPosition(s, e.mover, e.path[Len(e.path)]),
          exec |-> [e EXCEPT !.i = Len(e.path) + 1]]

\* the loop of executeMoveAction from waypoint e.i on, up to its next wait
MoveLoop(s, e) ==
    IF e.i > Len(e.path) THEN RunFrom(s, e, NextIndex(e.idx))
    ELSE LET nextPos == e.path[e.i]
             blocker == Blocker(s.units, e.mover, nextPos)
             isDestination == (e.i = Len(e.path))
             passes == /\ ~isDestination
                       /\ e.moverType = "PLAYER"
                       /\ s.units[blocker].type = "ENEMY"
         IN  IF blocker # "" /\ ~passes
             THEN RunFrom(s, e, NextIndex(e.idx))
             ELSE [store |-> updateUnitPosition(s, e.mover, nextPos),
                   exec |-> [e EXCEPT !.i = e.i + 1]]

\* the body of executeTurn's loop from the action at idx on, up to the next
\* wait or to the end of the drain
RunFrom(s, e, idx) ==
    IF idx > Len(e.queue) THEN Finish(s, e)
    ELSE LET action == e.queue[idx]
             at == [e EXCEPT !.idx = idx, !.started = Append(e.started, idx),
                             !.path = << >>, !.i = 0, !.mover = action.unitId,
                             !.moverType = "", !.stage = "none"]
         IN  CASE action.type = "MOVE" ->
                    IF action.unitId \notin DOMAIN s.units \/ action.target = NoPos
                    THEN RunFrom(s, at, NextIndex(idx))
                    ELSE LET unit == s.units[action.unitId]
                             path == findPath(unit.position, action.target, s.floor,
                                              s.units, unit.id)
                         IN  IF path = NoPath THEN RunFrom(s, at, NextIndex(idx))
                             ELSE MoveLoop(s, [at EXCEPT !.stage = "move", !.path = path,
                                                         !.i = 2, !.moverType = unit.type])
               [] action.type = "ATTACK" ->
                    IF AttackProceeds(s, action)
                    THEN [store |-> s, exec |-> [at EXCEPT !.stage = "swing"]]
                    ELSE RunFrom(s, at, NextIndex(idx))
               [] action.type = "CLIMB" ->
                    IF ClimbTarget(s, action) = NoPos
                    THEN RunFrom(s, at, NextIndex(idx))
                    ELSE [store |-> s,
                          exec |-> [at EXCEPT !.stage = "climb1",
                                              !.path = <<ClimbTarget(s, action)>>]]
               [] OTHER -> RunFrom(s, at, NextIndex(idx))

\* executeTurn up to its first wait
executeTurn(s, e) ==
    LET queue == s.actionQueue
        frame == [e EXCEPT !.pc = "running", !.queue = queue]
    IN  IF Len(queue) = 0
        THEN [store |-> endExecution(s), exec |-> [IdleExec EXCEPT !.hostLen = e.hostLen]]
        ELSE RunFrom(s, frame, 1)

\* a resumption whose hit lands on the attacker
ResumeBackfire(s, e) ==
    CASE e.stage = "move" -> MoveLoop(s, e)
      [] e.stage = "swing" ->
            [store |-> applyDamage(s, e.queue[e.idx].unitId, ATTACK_DAMAGE),
             exec |-> [e EXCEPT !.stage = "hit"]]
      [] e.stage = "climb1" ->
            [store |-> updateUnitPosition(s, e.mover, e.path[1]),
             exec |-> [e EXCEPT !.stage = "climb2"]]
      [] OTHER -> RunFrom(s, e, NextIndex(e.idx))

\* executeTurn resumed after a wait
Resume(s, e) ==
    CASE e.stage = "move" -> MoveLoop(s, e)
      [] e.stage = "swing" ->
            [store |-> applyDamage(s, e.queue[e.idx].targetUnitId, ATTACK_DAMAGE),
             exec |-> [e EXCEPT !.stage = "hit"]]
      [] e.stage = "climb1" ->
            [store |-> updateUnitPosition(s, e.mover, e.path[1]),
             exec |-> [e EXCEPT !.stage = "climb2"]]
      [] OTHER -> RunFrom(s, e, NextIndex(e.idx))

----------------------------------------------------------------------------
(* The host.  The UI and the timer loop call initGame, queueAction,        *)
(* cancelAction and the per-frame tick while no drain is running; the      *)
(* other mutators are exported by the store and are called directly, a     *)
(* bounded number of times per game.  lastOp and before are history:       *)
(* lastOp names the call just made where a property asks about it, before  *)
(* keeps what that call started from.                                      *)

MaxTurns == 1
MaxDirect == 1

NoBefore == [queue |-> << >>, ap |-> << >>, cost |-> 0, started |-> << >>, hostLen |-> 0]
NoQuery == [kind |-> "none"]
NoGen == [pc |-> "none"]
NoPlan == [kind |-> "none"]

ApOf(units) == [id \in DOMAIN units |-> units[id].ap]

\* the MOVE targets the host clicks: the tile left of the start, the stairs,
\* and the tile above the stairs on the upper floor
MoveTargets ==
    {<<Coord(0, CenterY, 0), AP(1)>>,
     <<Coord(StairX, StairY, 0), AP(3) \div 2>>,
     <<Coord(StairX, CenterY, 1), AP(1)>>}

HostActions ==
    {Act("MOVE", PlayerId, t[1], "", t[2]) : t \in MoveTargets} \cup
    {Act("ATTACK", PlayerId, NoPos, EnemyId, AP(ATTACK_COST)),
     Act("CLIMB", PlayerId, NoPos, "", AP(CLIMB_COST)),
     Act("WAIT", PlayerId, NoPos, "", 0)}

Rnd(choice) == [id \in UnitIds \cup {OtherEnemyId} |-> choice]

\* the plans Math.random allows: it is read only by an enemy that ends its
\* state transition in WANDER
Wanders(plan) == \E id \in DOMAIN plan.units : plan.units[id].memState = "WANDER"

PlansFrom(s, plan) ==
    IF Wanders(plan)
    THEN {decideEnemyActions(s, Rnd(choice)) : choice \in WanderChoices}
    ELSE {plan}

Plans(s) == PlansFrom(s, decideEnemyActions(s, Rnd(<<0, 0>>)))

\* the host acts between drains, until the last drain the model follows
Idle == exec.pc = "idle" /\ turns < MaxTurns

Host(next) ==
    /\ Idle
    /\ store' = next
    /\ exec' = IdleExec
    /\ lastOp' = "other"
    /\ before' = NoBefore
    /\ UNCHANGED <<pf, gen, ai, turns, direct>>

Direct(next) ==
    /\ direct < MaxDirect
    /\ Idle
    /\ store' = next
    /\ exec' = IdleExec
    /\ lastOp' = "other"
    /\ before' = NoBefore
    /\ direct' = direct + 1
    /\ UNCHANGED <<pf, gen, ai, turns>>

\* initGame(seed), evaluated once per seed
NewGame == [seed \in Seeds |-> initGame(seed)]

InitGame(seed) ==
    /\ exec.pc = "idle"
    /\ store' = NewGame[seed]
    /\ exec' = IdleExec
    /\ lastOp' = "other"
    /\ before' = NoBefore
    /\ turns' = 0
    /\ direct' = 0
    /\ UNCHANGED <<pf, gen, ai>>

\* setPhase('EXECUTION') on s; the phase change starts executeTurn
Enter(s) ==
    /\ Idle
    /\ \E plan \in Plans(s) : store' = splice(s, plan)
    /\ exec' = PendingExec(Len(s.actionQueue))
    /\ lastOp' = "other"
    /\ before' = NoBefore
    /\ turns' = turns + 1
    /\ UNCHANGED <<pf, gen, ai>>

\* one frame of the timer loop: updateTimer, then the expiry check
Tick(delta) ==
    LET ticked == updateTimer(store, delta) IN
    IF ticked.phase = "DECISION" /\ ticked.timer <= 0
    THEN Enter(ticked) /\ direct' = direct
    ELSE Host(ticked)

QueueAction(action) ==
    /\ Idle
    /\ Len(store.actionQueue) < MaxQueue
    /\ store' = queueAction(store, action)
    /\ exec' = IdleExec
    /\ UNCHANGED <<pf, gen, ai, turns, direct>>
    /\ IF action.unitId \in DOMAIN store.units
          /\ action.cost <= store.units[action.unitId].ap
       THEN /\ lastOp' = "queueAction"
            /\ before' = [NoBefore EXCEPT !.queue = store.actionQueue,
                                          !.ap = ApOf(store.units),
                                          !.cost = action.cost]
       ELSE /\ lastOp' = "other"
            /\ before' = NoBefore

CancelAction ==
    /\ Idle
    /\ store' = cancelAction(store)
    /\ exec' = IdleExec
    /\ UNCHANGED <<pf, gen, ai, turns, direct>>
    /\ IF lastOp = "queueAction"
       THEN lastOp' = "queueCancel" /\ before' = before
       ELSE lastOp' = "other" /\ before' = NoBefore

SetPhaseDecision == Direct(setPhase(store, "DECISION"))

SetPhaseExecution ==
    /\ direct < MaxDirect
    /\ direct' = direct + 1
    /\ Enter(store)

ClearActionQueue == Direct(clearActionQueue(store))

UpdateUnitStatus(unitId, hp) ==
    /\ unitId \in DOMAIN store.units
    /\ hp \in {1, store.units[unitId].maxHp + 1}
    /\ Direct(updateUnitStatus(store, unitId, [hp |-> hp]))

\* updateUnitPosition called directly: the unit is put on the upper end of
\* the stairs
UpdateUnitPosition(unitId) ==
    /\ unitId \in DOMAIN store.units
    /\ Direct(updateUnitPosition(store, unitId, Coord(StairX, StairY, 1)))

\* a step of the drain: r is the state at the next suspension, or after
\* endExecution
Drain(r) ==
    /\ store' = r.store
    /\ UNCHANGED <<pf, gen, ai, turns, direct>>
    /\ IF r.exec.pc = "idle"
       THEN /\ exec' = IdleExec
            /\ lastOp' = "drained"
            /\ before' = [NoBefore EXCEPT !.queue = r.exec.queue,
                                          !.started = r.exec.started,
                                          !.hostLen = r.exec.hostLen]
       ELSE /\ exec' = r.exec
            /\ lastOp' = "other"
            /\ before' = NoBefore

ExecuteTurn == exec.pc = "pending" /\ Drain(executeTurn(store, exec))

ExecStep == exec.pc = "running" /\ Drain(Resume(store, exec))

Deltas == {3, 5}

Init ==
    /\ store = initialState
    /\ exec = IdleExec
    /\ lastOp = "other"
    /\ before = NoBefore
    /\ pf = NoQuery
    /\ turns = 0
    /\ direct = 0
    /\ gen = NoGen
    /\ ai = NoPlan

Next ==
    \/ \E seed \in Seeds : InitGame(seed)
    \/ \E delta \in Deltas : Tick(delta)
    \/ \E action \in HostActions : QueueAction(action)
    \/ CancelAction
    \/ SetPhaseDecision
    \/ SetPhaseExecution
    \/ ClearActionQueue
    \/ \E unitId \in UnitIds, hp \in 1 .. ENEMY_HP + 1 : UpdateUnitStatus(unitId, hp)
    \/ \E unitId \in UnitIds : UpdateUnitPosition(unitId)
    \/ ExecuteTurn
    \/ ExecStep

Spec == Init /\ [][Next]_vars

----------------------------------------------------------------------------
(* Pathfinding on its own: a query is a world, a start, an end and the     *)
(* tile of one other unit; the actions answer it with each revision of     *)
(* findPath in src/.                                                       *)

OutOfBounds == {Coord(-1, 0, 0), Coord(MapWidth, 0, 0)}

Kinds == {"PLAYER", "ENEMY"}

\* the other unit stands on a walkable tile of either floor
Queries ==
    {[kind |-> "query", seed |-> seed, start |-> start, end |-> end,
      moverKind |-> mk, otherKind |-> ok, other |-> o,
      obstacles |-> {start, o}, path |-> NoPath] :
        seed \in Seeds, start \in Coords, end \in Coords \cup OutOfBounds,
        o \in Coords, mk \in Kinds, ok \in Kinds}

WellPlaced(q) == Walkable(TileTypeAt(q.seed, q.other.x, q.other.y, q.other.floor))

InitPath ==
    /\ store = initialState
    /\ exec = IdleExec
    /\ lastOp = "other"
    /\ before = NoBefore
    /\ turns = 0
    /\ direct = 0
    /\ gen = NoGen
    /\ ai = NoPlan
    /\ pf \in {q \in Queries : WellPlaced(q)}

\* the ids of a query's mover and of its other unit
MoverId(q) == IF q.moverKind = "PLAYER" THEN PlayerId ELSE EnemyId

OtherId(q) ==
    IF q.otherKind = "PLAYER" THEN (IF q.moverKind = "PLAYER" THEN "player-2" ELSE PlayerId)
    ELSE (IF q.moverKind = "ENEMY" THEN OtherEnemyId ELSE EnemyId)

\* the live unit list of a query: the mover on the start, the other unit
QueryUnits(q) ==
    (MoverId(q) :> [id |-> MoverId(q), type |-> q.moverKind, position |-> q.start]) @@
    (OtherId(q) :> [id |-> OtherId(q), type |-> q.otherKind, position |-> q.other])

Answer(kind, path) ==
    /\ pf.kind = "query"
    /\ pf' = [pf EXCEPT !.kind = kind, !.path = path]
    /\ UNCHANGED <<store, exec, lastOp, before, turns, direct, gen, ai>>

PathStatic ==
    Answer("static", findPathStatic(pf.start, pf.end, generateMap(pf.seed).floor))

PathObstacles ==
    Answer("obstacles", findPathObstacles(pf.start, pf.end, generateMap(pf.seed).floor,
                                          pf.obstacles))

PathUnits ==
    Answer("units", findPath(pf.start, pf.end, generateMap(pf.seed).floor,
                             QueryUnits(pf), MoverId(pf)))

NextPath == PathStatic \/ PathObstacles \/ PathUnits

SpecPath == InitPath /\ [][NextPath]_vars

----------------------------------------------------------------------------
(* A planning pass on its own: a world in DECISION with the enemy and the  *)
(* player somewhere on the map, the enemy's AP and memory as earlier turns *)
(* may have left them and the player's MOVE queued or not; the action      *)
(* enters EXECUTION on it and runs the drain to its end.                   *)

\* the enemy's AP: a step, an ATTACK, a diagonal step and an ATTACK, all of it
EnemyAps == {AP(1), AP(3), AP(9) \div 2, AP(ENEMY_AP)}

WalkableCoords(seed, floors) ==
    {c \in Coords : c.floor \in floors /\ Walkable(TileTypeAt(seed, c.x, c.y, c.floor))}

\* the player's field of view from every tile of every world
FovAt ==
    [seed \in Seeds |-> [pos \in Coords |->
        calculateSimpleFOV(pos, PLAYER_SIGHT, NewGame[seed].floor)]]

\* the world of a planning pass; in.queue is the player's queued intents, in
\* the order they were queued
Placed(in) ==
    [NewGame[in.seed] EXCEPT
        !.units = (PlayerId :> [PlayerUnit EXCEPT !.position = in.playerPos]) @@
                  (EnemyId :> [EnemyUnit(in.seed) EXCEPT
                                   !.position = in.enemyPos, !.ap = in.ap,
                                   !.memState = in.mem,
                                   !.lastKnownTargetPos = in.last]),
        !.visibleTiles = FovAt[in.seed][in.playerPos],
        !.exploredTiles = @ \cup FovAt[in.seed][in.playerPos]]

PlanState(in) == QueueAll(Placed(in), in.queue)

\* the memories an enemy may hold: none yet, or a state with the last known
\* position of the player where the state keeps one
Memories(enemyPos, playerPos) ==
    {<<"NONE", NoPos>>, <<"WANDER", NoPos>>} \cup
    {<<m, last>> : m \in {"CHASE", "SEARCH"}, last \in {enemyPos, playerPos}}

PlayerQueues ==
    {<< >>} \cup
    {<<Act("MOVE", PlayerId, t[1], "", t[2])>> : t \in MoveTargets}

\* the inputs of one world: the enemy on a walkable tile of floor 0, the
\* player on another walkable tile
InputsAt(seed, e, p) ==
    {[seed |-> seed, enemyPos |-> e, playerPos |-> p, ap |-> ap,
      mem |-> m[1], last |-> m[2], queue |-> q] :
        ap \in EnemyAps, m \in Memories(e, p), q \in PlayerQueues}

PlanInputs ==
    UNION {InputsAt(w[1], w[2], w[3]) :
             w \in {v \in Seeds \X Coords \X Coords :
                      /\ v[2] \in WalkableCoords(v[1], {0})
                      /\ v[3] \in WalkableCoords(v[1], Zs)
                      /\ v[2] # v[3]}}

\* the drain run to its end: the store endExecution leaves
RECURSIVE RunOut(_)
RunOut(r) == IF r.exec.pc = "idle" THEN r.store ELSE RunOut(Resume(r.store, r.exec))

DrainAll(s) == RunOut(executeTurn(s, PendingExec(Len(s.actionQueue))))

Outcome(state, plan) ==
    [kind |-> "planned", state |-> state, plan |-> plan,
     after |-> DrainAll(splice(state, plan))]

\* setPhase('EXECUTION') on the world, and the Execution phase it starts
PlanPass ==
    /\ ai.kind = "input"
    /\ \E plan \in Plans(ai.state) : ai' = Outcome(ai.state, plan)
    /\ UNCHANGED <<store, exec, lastOp, before, pf, turns, direct, gen>>

InitPlan ==
    /\ store = initialState
    /\ exec = IdleExec
    /\ lastOp = "other"
    /\ before = NoBefore
    /\ pf = NoQuery
    /\ turns = 0
    /\ direct = 0
    /\ gen = NoGen
    /\ ai \in {[kind |-> "input", state |-> PlanState(in)] : in \in PlanInputs}

NextPlan == PlanPass

SpecPlan == InitPlan /\ [][NextPlan]_vars

----------------------------------------------------------------------------
(* Map generation step by step.  generateMap draws every tile, clears the  *)
(* start area, draws the stairs until they lie away from the centre,       *)
(* places the player and draws enemy tiles until enough enemies stand or   *)
(* the attempts run out.  The generator is the program's LCG with a        *)
(* narrower state (2^LcgBits values in place of 2^32), which keeps its     *)
(* full period; gen.seed is the LCG's state.                               *)

SmallMap == 5           \* the small map size generated
LargeMap == 12          \* the large map size generated, scaled down from 20
LcgBits == 6            \* bits of the LCG state, scaled down from 32

LCG_A == 1664525
LCG_C == 1013904223
START_CLEAR == 2
STAIR_MIN_DIST == 5
SPAWN_MIN_DIST == 6
MAX_ATTEMPTS == 100
ENEMY_COUNT_MIN == 3
ENEMY_COUNT_SPREAD == 3

LcgMod == 2 ^ LcgBits

GenSizes == {SmallMap, LargeMap}
GenSeeds == 0 .. (LcgMod - 1)

\* PRNG.next(): the state after one draw; the value drawn is state / LcgMod
Lcg(seed) == (seed * LCG_A + LCG_C) % LcgMod

\* Math.floor(next * n) for the drawn state
Scaled(drawn, n) == (drawn * n) \div LcgMod

\* PRNG.range(min, max) for the drawn state
range(drawn, min, max) == Scaled(drawn, max - min + 1) + min

\* prng.next() > 0.8
IsWallDraw(drawn) == 5 * drawn > 4 * LcgMod

GenStart(size, seed) ==
    [pc |-> "tiles", w |-> size, h |-> size, seed |-> seed, k |-> 0, walls |-> {},
     sx |-> 0, sy |-> 0, units |-> {}, enemyCount |-> 0, enemiesSpawned |-> 0,
     attempts |-> 0]

GenStep(next) ==
    /\ gen' = next
    /\ UNCHANGED <<store, exec, lastOp, before, pf, turns, direct, ai>>

\* one tile of the tile loops: tile k is (x, y) = (k \div h % w, k % h) of
\* floor k \div (w * h); the walls of floor 0 are kept
GenTile ==
    /\ gen.pc = "tiles"
    /\ gen.k < gen.w * gen.h * FLOORS
    /\ GenStep([gen EXCEPT !.k = gen.k + 1,
                           !.seed = Lcg(gen.seed),
                           !.walls = IF gen.k < gen.w * gen.h /\ IsWallDraw(Lcg(gen.seed))
                                     THEN gen.walls \cup {<<gen.k \div gen.h, gen.k % gen.h>>}
                                     ELSE gen.walls])

\* after the tile loops: the start area of floor 0 is cleared
GenClear ==
    /\ gen.pc = "tiles"
    /\ gen.k = gen.w * gen.h * FLOORS
    /\ GenStep([gen EXCEPT !.pc = "stairs",
                           !.walls = {t \in gen.walls :
                                        ~(/\ Abs(t[1] - gen.w \div 2) <= START_CLEAR
                                          /\ Abs(t[2] - gen.h \div 2) <= START_CLEAR)},
                           !.sx = gen.w \div 2, !.sy = gen.h \div 2])

\* the condition of the stairs loop
StairsTooClose(g) ==
    /\ Abs(g.sx - g.w \div 2) < STAIR_MIN_DIST
    /\ Abs(g.sy - g.h \div 2) < STAIR_MIN_DIST

\* one iteration of the stairs loop
GenStairDraw ==
    /\ gen.pc = "stairs"
    /\ StairsTooClose(gen)
    /\ GenStep([gen EXCEPT !.sx = range(Lcg(gen.seed), 1, gen.w - 2),
                           !.sy = range(Lcg(Lcg(gen.seed)), 1, gen.h - 2),
                           !.seed = Lcg(Lcg(gen.seed))])

\* after the stairs loop: the stairs, the player and the enemy count
GenPlace ==
    /\ gen.pc = "stairs"
    /\ ~StairsTooClose(gen)
    /\ GenStep([gen EXCEPT !.pc = "spawn",
                           !.walls = gen.walls \ {<<gen.sx, gen.sy>>},
                           !.units = {<<gen.w \div 2, gen.h \div 2>>},
                           !.enemyCount = ENEMY_COUNT_MIN
                                            + Scaled(Lcg(gen.seed), ENEMY_COUNT_SPREAD),
                           !.seed = Lcg(gen.seed)])

SpawnGoesOn(g) == g.enemiesSpawned < g.enemyCount /\ g.attempts < MAX_ATTEMPTS

\* one iteration of the spawn loop
GenSpawnAttempt ==
    /\ gen.pc = "spawn"
    /\ SpawnGoesOn(gen)
    /\ LET x == Scaled(Lcg(gen.seed), gen.w)
           y == Scaled(Lcg(Lcg(gen.seed)), gen.h)
           dist == Abs(x - gen.w \div 2) + Abs(y - gen.h \div 2)
           spawns == /\ <<x, y>> \notin gen.walls
                     /\ dist > SPAWN_MIN_DIST
                     /\ <<x, y>> \notin gen.units
       IN  GenStep([gen EXCEPT !.attempts = gen.attempts + 1,
                               !.seed = Lcg(Lcg(gen.seed)),
                               !.units = IF spawns THEN gen.units \cup {<<x, y>>}
                                         ELSE gen.units,
                               !.enemiesSpawned = IF spawns THEN gen.enemiesSpawned + 1
                                                  ELSE gen.enemiesSpawned])

\* generateMap returns
GenReturn ==
    /\ gen.pc = "spawn"
    /\ ~SpawnGoesOn(gen)
    /\ GenStep([gen EXCEPT !.pc = "done"])

InitGen ==
    /\ store = initialState
    /\ exec = IdleExec
    /\ lastOp = "other"
    /\ before = NoBefore
    /\ pf = NoQuery
    /\ turns = 0
    /\ direct = 0
    /\ gen \in {GenStart(size, seed) : size \in GenSizes, seed \in GenSeeds}
    /\ ai = NoPlan

NextGen == GenTile \/ GenClear \/ GenStairDraw \/ GenPlace \/ GenSpawnAttempt \/ GenReturn

\* generateMap is synchronous code: it keeps running while it can
SpecGen == InitGen /\ [][NextGen]_vars /\ WF_vars(NextGen)

----------------------------------------------------------------------------
(* Damage and healing on their own: a world whose units carry the hp the   *)
(* earlier hits left them; applyDamage is called on a unit with any        *)
(* amount, and updateUnitStatus then writes back the hp the unit had.      *)

MaxEvents == 2          \* damage events logged before the calls stop

\* the unit as hits of applyDamage leave it at hp
Hurt(unit, hp) ==
    [unit EXCEPT !.hp = hp, !.isInjured = (hp < unit.maxHp /\ 2 * hp < unit.maxHp)]

HurtWorlds ==
    {[NewGame[seed] EXCEPT !.units[PlayerId] = Hurt(@, ph),
                           !.units[EnemyId] = Hurt(@, eh)] :
        seed \in Seeds, ph \in 1 .. PlayerMaxHp, eh \in 1 .. ENEMY_HP}

\* applyDamage(unitId, amount)
ApplyDamage(unitId, amount) ==
    /\ lastOp # "damage"
    /\ Len(store.damageEvents) < MaxEvents
    /\ unitId \in DOMAIN store.units
    /\ store' = applyDamage(store, unitId, amount)
    /\ lastOp' = "damage"
    /\ before' = [unit |-> store.units[unitId], amount |-> amount]
    /\ UNCHANGED <<exec, pf, turns, direct, gen, ai>>

\* updateUnitStatus(unitId, { hp: h }) with the hp the unit had before
HealBack ==
    /\ lastOp = "damage"
    /\ store' = updateUnitStatus(store, before.unit.id, [hp |-> before.unit.hp])
    /\ lastOp' = "heal"
    /\ UNCHANGED <<before, exec, pf, turns, direct, gen, ai>>

InitHeal ==
    /\ store \in HurtWorlds
    /\ exec = IdleExec
    /\ lastOp = "other"
    /\ before = NoBefore
    /\ pf = NoQuery
    /\ turns = 0
    /\ direct = 0
    /\ gen = NoGen
    /\ ai = NoPlan

NextHeal ==
    \/ \E unitId \in UnitIds, amount \in 1 .. ENEMY_HP : ApplyDamage(unitId, amount)
    \/ HealBack

SpecHeal == InitHeal /\ [][NextHeal]_vars

----------------------------------------------------------------------------
(* The turn loop left running.  The host queues intents during the first   *)
(* turns only; the timer loop and the drain go on for ever.  A frame of    *)
(* the timer loop runs whenever no drain is in progress, and the drain is  *)
(* resumed after each of its delays.                                       *)

\* the worlds a game starts from, the enemy whole or one hit from removal
LiveWorlds ==
    {[NewGame[seed] EXCEPT !.units[EnemyId] = Hurt(@, eh)] :
        seed \in Seeds, eh \in {1, ENEMY_HP}}

\* setPhase('EXECUTION') on s, in any turn
EnterLive(s) ==
    /\ \E plan \in Plans(s) : store' = splice(s, plan)
    /\ exec' = PendingExec(Len(s.actionQueue))
    /\ turns' = Min(turns + 1, MaxTurns)

StayLive(s) ==
    /\ store' = s
    /\ exec' = IdleExec
    /\ turns' = turns

\* one frame of the timer loop with a positive delta
Frame(delta) ==
    /\ exec.pc = "idle"
    /\ lastOp' = "other"
    /\ before' = NoBefore
    /\ UNCHANGED <<pf, gen, ai, direct>>
    /\ IF updateTimer(store, delta).phase = "DECISION"
          /\ updateTimer(store, delta).timer <= 0
       THEN EnterLive(updateTimer(store, delta))
       ELSE StayLive(updateTimer(store, delta))

Frames == \E delta \in Deltas : Frame(delta)

InitLive ==
    /\ store \in LiveWorlds
    /\ exec = IdleExec
    /\ lastOp = "other"
    /\ before = NoBefore
    /\ pf = NoQuery
    /\ turns = 0
    /\ direct = 0
    /\ gen = NoGen
    /\ ai = NoPlan

NextLive ==
    \/ Frames
    \/ \E action \in HostActions : QueueAction(action)
    \/ ExecuteTurn
    \/ ExecStep

\* Weak fairness of the three steps, each written on what the step does to
\* exec and the store.  executeTurn is enabled exactly while the drain is
\* pending, and ends that; a resumption is enabled exactly while the drain
\* is running, and it alone changes exec then; a frame is enabled when no
\* drain is in progress and the frame would change something.
Expires(s) == s.phase = "DECISION" /\ s.timer <= 0

FramesEnabled ==
    /\ exec.pc = "idle"
    /\ \/ lastOp # "other"
       \/ before # NoBefore
       \/ \E delta \in Deltas :
             Expires(updateTimer(store, delta)) \/ updateTimer(store, delta) # store

FrameStep ==
    /\ exec.pc = "idle"
    /\ lastOp' = "other"
    /\ before' = NoBefore
    /\ \/ exec'.pc = "pending"
       \/ /\ exec' = IdleExec
          /\ \E delta \in Deltas :
                /\ ~Expires(updateTimer(store, delta))
                /\ store' = updateTimer(store, delta)

ResumeStep == exec.pc = "running" /\ exec' # exec

\* requestAnimationFrame keeps calling the loop
FairFrames == []<>(~FramesEnabled) \/ []<><<FrameStep>>_vars

\* the phase effect starts executeTurn
FairExecuteTurn == []<>(exec.pc # "pending")

\* every setTimeout of the drain fires
FairResume == []<>(exec.pc # "running") \/ []<><<ResumeStep>>_vars

SpecLive ==
    /\ InitLive
    /\ [][NextLive]_vars
    /\ FairFrames
    /\ FairExecuteTurn
    /\ FairResume

----------------------------------------------------------------------------
(* A planning pass over two enemies: a world in DECISION with the player   *)
(* and two enemies on walkable tiles, each enemy with no memory yet or     *)
(* searching, the player's MOVE queued or not.  The pass is kept with the  *)
(* destinations it reserved.                                               *)

SecondEnemy(seed, pos, mem) ==
    [EnemyUnit(seed) EXCEPT !.id = OtherEnemyId, !.position = pos,
                            !.memState = mem[1], !.lastKnownTargetPos = mem[2]]

\* the world of Placed(in) with the second enemy added
PlacedTwo(in, pos, mem) ==
    [PlanState(in) EXCEPT !.units = @ @@ (OtherEnemyId :> SecondEnemy(in.seed, pos, mem))]

ReserveQueues ==
    {<< >>, <<Act("MOVE", PlayerId, Coord(0, CenterY, 0), "", AP(1))>>}

\* no memory yet, or a search for the tile the first enemy stands on
ReserveMemories(enemyPos) == {<<"NONE", NoPos>>, <<"SEARCH", enemyPos>>}

\* the second enemy's AP: all of it, and for two fresh enemies behind a
\* moving player also what is left for one diagonal step
ReserveAps(m, n, q) ==
    IF m[1] = "NONE" /\ n[1] = "NONE" /\ q # << >>
    THEN {AP(3) \div 2, AP(ENEMY_AP)}
    ELSE {AP(ENEMY_AP)}

ReserveWorlds ==
    UNION {UNION {{[PlacedTwo([seed |-> w[1], enemyPos |-> w[2], playerPos |-> w[4],
                               ap |-> AP(ENEMY_AP), mem |-> c[1][1], last |-> c[1][2],
                               queue |-> c[3]], w[3], c[2])
                    EXCEPT !.units[OtherEnemyId].ap = a] :
                      a \in ReserveAps(c[1], c[2], c[3])} :
                  c \in ReserveMemories(w[2]) \X ReserveMemories(w[2]) \X ReserveQueues} :
           w \in {v \in Seeds \X Coords \X Coords \X Coords :
                    /\ v[2] \in WalkableCoords(v[1], {0})
                    /\ v[3] \in WalkableCoords(v[1], {0})
                    /\ v[4] \in WalkableCoords(v[1], Zs)
                    /\ v[2] # v[3] /\ v[2] # v[4] /\ v[3] # v[4]}}

\* decideEnemyActions up to its return, with what the forEach accumulated
ReserveFor(s, choice) ==
    PlanFor(s, Living(s.units, "PLAYER"), Living(s.units, "ENEMY"),
            s.units[PlayerId], [id \in DOMAIN s.units |-> choice])

ReservePlans(s, done) ==
    IF Wanders(done) THEN {ReserveFor(s, choice) : choice \in WanderChoices}
    ELSE {done}

ReservePass ==
    /\ ai.kind = "world"
    /\ \E done \in ReservePlans(ai.state, ReserveFor(ai.state, <<0, 0>>)) :
          ai' = [kind |-> "reserved", state |-> ai.state, done |-> done]
    /\ UNCHANGED <<store, exec, lastOp, before, pf, turns, direct, gen>>

InitReserve ==
    /\ store = initialState
    /\ exec = IdleExec
    /\ lastOp = "other"
    /\ before = NoBefore
    /\ pf = NoQuery
    /\ turns = 0
    /\ direct = 0
    /\ gen = NoGen
    /\ ai \in {[kind |-> "world", state |-> s] : s \in ReserveWorlds}

NextReserve == ReservePass

SpecReserve == InitReserve /\ [][NextReserve]_vars

----------------------------------------------------------------------------
(* The running game with its handlers as the components call them: the     *)
(* timer loop's frame, a click on a tile or on the climb button, a click   *)
(* on the cancel button, the phase effect that starts executeTurn and the  *)
(* resumptions of the drain.  Frames and clicks arrive at any time, also   *)
(* between two suspension points of the drain.  lastOp records a frame or  *)
(* a click that arrived during a drain, and "overlap" a setPhase           *)
(* ('EXECUTION') issued while a drain was in progress.                     *)

\* handleTileClick's and ActionMenu's guard: my turn, nothing queued yet
ClickAllowedAnyPhase(s) ==
    PlayerId \in DOMAIN s.units /\ Len(s.actionQueue) = 0

ClickAllowed(s) ==
    /\ s.phase = "DECISION"
    /\ PlayerId \in DOMAIN s.units
    /\ Len(s.actionQueue) = 0

\* the cancel button is rendered in DECISION and enabled with a queued action
CancelShown(s) == s.phase = "DECISION" /\ Len(s.actionQueue) > 0

\* the loop's expiry test without the phase
ExpiresAnyPhase(s) == s.timer <= 0

Expired(s) == s.phase = "DECISION" /\ s.timer <= 0

InDrain == exec.pc # "idle"

UiFrame(delta) ==
    /\ before' = NoBefore
    /\ UNCHANGED <<pf, gen, ai, direct>>
    /\ IF Expired(updateTimer(store, delta))
       THEN IF InDrain
            THEN /\ store' = setPhase(updateTimer(store, delta), "EXECUTION")
                 /\ exec' = exec
                 /\ turns' = turns
                 /\ lastOp' = "overlap"
            ELSE /\ EnterLive(updateTimer(store, delta))
                 /\ lastOp' = "other"
       ELSE /\ store' = updateTimer(store, delta)
            /\ exec' = exec
            /\ turns' = turns
            /\ lastOp' = IF InDrain THEN "frameInDrain" ELSE "other"

UiClick(action) ==
    /\ before' = NoBefore
    /\ UNCHANGED <<pf, gen, ai, direct, turns, exec>>
    /\ store' = IF ClickAllowed(store) THEN queueAction(store, action) ELSE store
    /\ lastOp' = IF InDrain THEN "clickInDrain" ELSE "other"

UiCancel ==
    /\ before' = NoBefore
    /\ UNCHANGED <<pf, gen, ai, direct, turns, exec>>
    /\ store' = IF CancelShown(store) THEN cancelAction(store) ELSE store
    /\ lastOp' = IF InDrain THEN "clickInDrain" ELSE "other"

InitUi ==
    /\ store \in LiveWorlds
    /\ exec = IdleExec
    /\ lastOp = "other"
    /\ before = NoBefore
    /\ pf = NoQuery
    /\ turns = 0
    /\ direct = 0
    /\ gen = NoGen
    /\ ai = NoPlan

NextUi ==
    \/ \E delta \in Deltas : UiFrame(delta)
    \/ \E action \in HostActions : UiClick(action)
    \/ UiCancel
    \/ ExecuteTurn
    \/ ExecStep

SpecUi == InitUi /\ [][NextUi]_vars

----------------------------------------------------------------------------
(* One whole turn with two enemies: the player has queued at most one      *)
(* intent, the decision window runs out, the planner's intents are         *)
(* appended and the drain executes the queue.  The three units stand on    *)
(* distinct walkable tiles, the enemies on the ground floor, where the     *)
(* generator spawns them and the planner keeps them.                       *)

\* what the player has queued: nothing, or the climb button's CLIMB
CrowdQueues == {<< >>, <<Act("CLIMB", PlayerId, NoPos, "", AP(CLIMB_COST))>>}

CrowdWorlds ==
    UNION {{PlacedTwo([seed |-> w[1], enemyPos |-> w[2], playerPos |-> w[4],
                       ap |-> AP(ENEMY_AP), mem |-> "NONE", last |-> NoPos,
                       queue |-> q], w[3], <<"NONE", NoPos>>) :
               q \in CrowdQueues} :
           w \in {v \in Seeds \X Coords \X Coords \X Coords :
                    /\ v[2] \in WalkableCoords(v[1], {0})
                    /\ v[3] \in WalkableCoords(v[1], {0})
                    /\ v[4] \in WalkableCoords(v[1], Zs)
                    /\ v[2] # v[3] /\ v[2] # v[4] /\ v[3] # v[4]}}

\* the frames of the one turn followed
CrowdFrame(delta) == turns < MaxTurns /\ Frame(delta)

InitCrowd ==
    /\ store \in CrowdWorlds
    /\ exec = IdleExec
    /\ lastOp = "other"
    /\ before = NoBefore
    /\ pf = NoQuery
    /\ turns = 0
    /\ direct = 0
    /\ gen = NoGen
    /\ ai = NoPlan

NextCrowd ==
    \/ \E delta \in Deltas : CrowdFrame(delta)
    \/ ExecuteTurn
    \/ ExecStep

SpecCrowd == InitCrowd /\ [][NextCrowd]_vars

----------------------------------------------------------------------------
(* A MOVE on its own: a world in EXECUTION with the two units on walkable  *)
(* tiles and one MOVE queued, by either unit, to any tile; the drain runs  *)
(* it step by step.                                                        *)

MoveInputs ==
    {[seed |-> w[1], enemyPos |-> w[2], playerPos |-> w[3],
      ap |-> AP(ENEMY_AP), mem |-> "NONE", last |-> NoPos, queue |-> << >>] :
        w \in {v \in Seeds \X Coords \X Coords :
                 /\ v[2] \in WalkableCoords(v[1], Zs)
                 /\ v[3] \in WalkableCoords(v[1], Zs)
                 /\ v[2] # v[3]}}

\* the world with the mover's MOVE to target queued, the phase EXECUTION
MoveQueued(in, mover, target) ==
    queueAction(setPhase(Placed(in), "EXECUTION"),
                Act("MOVE", mover, target, "", AP(1)))

InitMove ==
    /\ store \in {MoveQueued(in, mover, target) :
                     in \in MoveInputs, mover \in UnitIds, target \in Coords}
    /\ exec = PendingExec(1)
    /\ lastOp = "other"
    /\ before = NoBefore
    /\ pf = NoQuery
    /\ turns = 0
    /\ direct = 0
    /\ gen = NoGen
    /\ ai = NoPlan

NextMove == ExecuteTurn \/ ExecStep

SpecMove == InitMove /\ [][NextMove]_vars

----------------------------------------------------------------------------
(* Properties.                                                             *)

PlayerAlive == PlayerId \in DOMAIN store.units

PlayerPos == store.units[PlayerId].position

\* C1: queueAction(a) for a unit with 0 <= a.cost <= ap, immediately followed
\* by cancelAction(), leaves the action queue and every unit's ap as they
\* were before the pair.
C1_QueueThenCancel ==
    lastOp = "queueCancel" =>
        /\ store.actionQueue = before.queue
        /\ ApOf(store.units) = before.ap

\* a pair made on a non-empty queue with an action that costs AP
C1_PairMade ==
    /\ lastOp = "queueCancel"
    /\ before.cost > 0
    /\ before.queue # << >>

\* C2: in every reachable state every unit in the unit map has
\* 0 <= ap <= maxAp.
C2_ApWithinRange ==
    \A id \in DOMAIN store.units :
        /\ 0 <= store.units[id].ap
        /\ store.units[id].ap <= store.units[id].maxAp

\* C3: in every reachable state every unit in the unit map has
\* 0 <= hp <= maxHp.
C3_HpWithinRange ==
    \A id \in DOMAIN store.units :
        /\ 0 <= store.units[id].hp
        /\ store.units[id].hp <= store.units[id].maxHp

C7_DrainEndsTurn ==
    lastOp = "drained" =>
        /\ store.actionQueue = << >>
        /\ store.phase = "DECISION"
        /\ store.timer = TIMER_START

\* a drain of the player's and the planner's intents has completed
C7_DrainedQueue ==
    /\ lastOp = "drained"
    /\ before.hostLen > 0
    /\ Len(before.queue) > before.hostLen

InOrder(queue, started) ==
    /\ started = [k \in 1 .. Len(started) |-> k]
    /\ \A j, k \in 1 .. Len(started) :
          (queue[started[j]].unitId = PlayerId /\ queue[started[k]].unitId = EnemyId)
              => j < k

\* C8: within a turn the actions are begun one at a time in queue order, the
\* player's intents before the planner's, and the drain ends having begun
\* every action of the queue.
C8_QueueOrder ==
    /\ exec.pc = "running" =>
          /\ Len(exec.started) = exec.idx
          /\ InOrder(exec.queue, exec.started)
    /\ lastOp = "drained" =>
          /\ Len(before.started) = Len(before.queue)
          /\ InOrder(before.queue, before.started)

\* an intent of the planner is in progress behind an intent of the player
C8_PlannerIntentRuns ==
    /\ exec.pc = "running"
    /\ exec.hostLen > 0
    /\ exec.idx > exec.hostLen
    /\ exec.queue[exec.idx].unitId = EnemyId
    /\ exec.queue[1].unitId = PlayerId

Indices(seq) == {seq[k] : k \in 1 .. Len(seq)}

HpOf(units, id) == IF id \in DOMAIN units THEN units[id].hp ELSE 0

\* attacker and target are in the unit map, on one floor, at Manhattan
\* distance at most 1
InReach(s, action) ==
    /\ action.unitId \in DOMAIN s.units
    /\ action.targetUnitId \in DOMAIN s.units
    /\ s.units[action.unitId].position.floor = s.units[action.targetUnitId].position.floor
    /\ Abs(s.units[action.unitId].position.x - s.units[action.targetUnitId].position.x)
         + Abs(s.units[action.unitId].position.y - s.units[action.targetUnitId].position.y)
         <= 1

\* the queue the drain works on, and the actions a step of it begins
DrainQueue == IF exec.pc = "pending" THEN store.actionQueue ELSE exec.queue

Begun ==
    (IF exec'.pc = "running" THEN Indices(exec'.started) ELSE Indices(before'.started))
        \ Indices(exec.started)

\* C9: an ATTACK the drain begins goes on to its swing exactly when attacker
\* and target are in reach; after the swing the target's hp is lower, and no
\* other step of the drain changes any unit's hp.
C9_AttackInReach ==
    [][exec.pc \in {"pending", "running"} =>
         /\ \A k \in Begun :
               DrainQueue[k].type = "ATTACK" =>
                   ((exec'.pc = "running" /\ exec'.idx = k /\ exec'.stage = "swing")
                        <=> InReach(store, DrainQueue[k]))
         /\ IF exec.pc = "running" /\ exec.stage = "swing"
            THEN HpOf(store'.units, exec.queue[exec.idx].targetUnitId)
                    < HpOf(store.units, exec.queue[exec.idx].targetUnitId)
            ELSE \A id \in UnitIds : HpOf(store'.units, id) = HpOf(store.units, id)]_vars

\* the player's ATTACK from two tiles away was skipped and the enemy's, from
\* the next tile, has hit
C9_SkippedThenHit ==
    /\ exec.pc = "running"
    /\ exec.stage = "hit"
    /\ exec.idx > 1
    /\ exec.queue[1].type = "ATTACK"
    /\ exec.queue[1].unitId = PlayerId
    /\ HpOf(store.units, EnemyId) = ENEMY_HP
    /\ HpOf(store.units, PlayerId) < PlayerMaxHp

\* consecutive waypoints differ by a step of {-1, 0, 1}^2 other than (0, 0)
KingStep(a, b) ==
    /\ Abs(a.x - b.x) <= 1
    /\ Abs(a.y - b.y) <= 1
    /\ (a.x # b.x \/ a.y # b.y)

\* C10: findPath(a, b) returns nothing, or a sequence that starts with a,
\* ends with b, advances by king steps, and whose tiles after the start are
\* in bounds and walkable.
C10_PathContract ==
    (pf.kind \in {"static", "obstacles"} /\ pf.path # NoPath) =>
        /\ pf.path[1] = pf.start
        /\ pf.path[Len(pf.path)] = pf.end
        /\ \A i \in 1 .. Len(pf.path) - 1 : KingStep(pf.path[i], pf.path[i + 1])
        /\ \A i \in 2 .. Len(pf.path) :
              /\ InBounds(pf.path[i].x, pf.path[i].y)
              /\ Walkable(TileTypeAt(pf.seed, pf.path[i].x, pf.path[i].y,
                                     pf.path[i].floor))

\* the start of the query is a walkable tile, as a unit's tile is
OnWalkable(q) == Walkable(TileTypeAt(q.seed, q.start.x, q.start.y, q.start.floor))

\* C11: findPath from a unit's own walkable tile to that same tile, given
\* the live unit list, returns the single-element path of that tile and not
\* "no path".
C11_OwnTilePath ==
    (pf.kind \in {"static", "obstacles", "units"} /\ pf.start = pf.end /\ OnWalkable(pf))
        => pf.path = <<pf.start>>

\* C12: map generation terminates for every seed and every map size, the
\* 5x5 map included: the stairs loop and the spawn loop both end and
\* generateMap returns.
C12_GenerationEnds == <>(gen.pc = "done")

\* C13: determinism.  Two copies of a world that enter the same Execution
\* phase stay identical: whatever the planner draws, the world the drain
\* leaves is the one it leaves in the copy whose draws are all the same.
C13_Deterministic ==
    [][ai.kind = "input" =>
         ai'.after = DrainAll(enterExecution(ai.state, Rnd(<<0, 0>>)))]_vars

\* C14: damage/heal round trip.  After applyDamage(u, k) with 0 < k < h on a
\* unit with hp h, updateUnitStatus(u, {hp: h}) leaves the unit with hp h
\* and with the isInjured it had before the damage.
C14_HealRoundTrip ==
    (lastOp = "heal" /\ before.amount < before.unit.hp)
        => /\ before.unit.id \in DOMAIN store.units
           /\ store.units[before.unit.id].hp = before.unit.hp
           /\ store.units[before.unit.id].isInjured = before.unit.isInjured

\* the intents of one unit in a plan, and the sum of their costs
IntentsOf(actions, unitId) == SelectSeq(actions, LAMBDA a : a.unitId = unitId)

RECURSIVE CostSum(_)
CostSum(actions) ==
    IF actions = << >> THEN 0 ELSE Head(actions).cost + CostSum(Tail(actions))

\* what the planner predicted at planning time
PredictedAt(s) ==
    Predicted(s.units[PlayerId], FirstMoveOf(s.actionQueue, PlayerId))

\* an ATTACK behind a MOVE is paid for by the AP the MOVE leaves and lands
\* next to the predicted position
ComboAllowed(s, intents) ==
    (Len(intents) = 2 /\ intents[1].type = "MOVE" /\ intents[2].type = "ATTACK")
        => /\ s.units[intents[1].unitId].ap - intents[1].cost >= AP(ATTACK_COST)
           /\ getDist(intents[1].target, PredictedAt(s)) <= 1

InBudget(s, intents, unitId) ==
    /\ CostSum(intents) <= s.units[unitId].ap
    /\ Len(intents) <= 2
    /\ Len(intents) = 2 => (intents[1].type = "MOVE" /\ intents[2].type = "ATTACK")
    /\ ComboAllowed(s, intents)

\* C15: in every planning pass the intents emitted for an enemy (a lone
\* ATTACK, a MOVE, or a MOVE followed by a combo ATTACK) cost together at
\* most the enemy's AP at planning time, and the combo ATTACK is emitted
\* only when the AP left after the MOVE is at least 3 and the MOVE ends at
\* Manhattan distance at most 1 from the predicted position of the player.
C15_PlanWithinAp ==
    ai.kind = "planned" =>
        \A id \in DOMAIN ai.state.units :
            ai.state.units[id].faction = "ENEMY" =>
                InBudget(ai.state, IntentsOf(ai.plan.actions, id), id)

\* a pass that emitted a MOVE and a combo ATTACK for the enemy
C15_ComboPlanned ==
    /\ ai.kind = "planned"
    /\ Len(IntentsOf(ai.plan.actions, EnemyId)) = 2
    /\ ai.plan.actions[1].type = "MOVE"
    /\ ai.plan.actions[2].type = "ATTACK"

\* where a CLIMB takes a unit: up from STAIRS_UP, down from STAIRS_DOWN,
\* NoPos where the unit stands on no stairs or the floor is missing
StairsMove(s, unitId) ==
    LET pos == s.units[unitId].position
        tile == s.floor[pos.floor][pos.x][pos.y]
    IN  IF tile = "STAIRS_UP" /\ (pos.floor + 1) \in DOMAIN s.floor
        THEN Coord(pos.x, pos.y, pos.floor + 1)
        ELSE IF tile = "STAIRS_DOWN" /\ (pos.floor - 1) \in DOMAIN s.floor
             THEN Coord(pos.x, pos.y, pos.floor - 1)
             ELSE NoPos

\* the queue being drained and the indices begun, after the step
QueueAfter == IF exec'.pc = "idle" THEN before'.queue ELSE exec'.queue
StartedAfter == IF exec'.pc = "idle" THEN before'.started ELSE exec'.started

\* the indices of the actions the step begins
BegunNow ==
    {StartedAfter[n] : n \in (Len(exec.started) + 1) .. Len(StartedAfter)}

Climbs(unitId) == unitId \in DOMAIN store.units /\ StairsMove(store, unitId) # NoPos

\* the CLIMB at index j waits at its animation delay, nothing changed yet
ClimbBegins(j) ==
    /\ exec'.pc = "running" /\ exec'.idx = j /\ exec'.stage = "climb1"
    /\ store' = store

\* the CLIMB at index j by unitId was given up: the drain is past it, the
\* unit stands where it stood unless its own next MOVE took a step, and the
\* world is as it was where the next action has not acted yet
ClimbFails(j, unitId) ==
    /\ exec'.pc = "idle" \/ exec'.idx # j
    /\ unitId \in DOMAIN store.units =>
          \/ exec'.pc = "running" /\ exec'.stage = "move" /\ exec'.mover = unitId
          \/ store'.units[unitId].position = store.units[unitId].position
    /\ (exec'.pc = "running" /\ exec'.stage \in {"swing", "climb1"}) => store' = store

\* C16: a CLIMB by a unit on STAIRS_UP (STAIRS_DOWN) moves it to the same
\* (x, y) one floor up (down) when that floor exists; a CLIMB by a unit that
\* is on no stairs tile, or whose target floor does not exist, leaves the
\* unit's position and the rest of the world unchanged.
C16_ClimbContract ==
    [][/\ \A j \in BegunNow :
              QueueAfter[j].type = "CLIMB" =>
                  IF Climbs(QueueAfter[j].unitId)
                  THEN ClimbBegins(j)
                  ELSE ClimbFails(j, QueueAfter[j].unitId)
       /\ (exec.pc = "running" /\ exec.stage = "climb1") =>
              /\ Climbs(exec.mover)
              /\ store'.units[exec.mover].position = StairsMove(store, exec.mover)
              /\ exec'.stage = "climb2"]_vars

\* a unit has just climbed down to the ground floor
C16_ClimbedDown ==
    /\ exec.pc = "running"
    /\ exec.stage = "climb2"
    /\ exec.queue[exec.idx].type = "CLIMB"
    /\ store.units[exec.mover].position = Coord(StairX, StairY, 0)

\* C17: liveness of the turn loop.  With the timer loop's frames and the
\* drain's delays scheduled fairly, every DECISION phase is followed by an
\* EXECUTION phase, and every EXECUTION phase drains to its end and is
\* followed by DECISION with the timer at 5.0.
C17_TurnLoop ==
    /\ (store.phase = "DECISION") ~> (store.phase = "EXECUTION")
    /\ (store.phase = "EXECUTION")
          ~> (store.phase = "DECISION" /\ store.timer = TIMER_START /\ exec.pc = "idle")

\* a drain has ended in which the enemy held intents and was removed
C17_DrainedPastRemoval ==
    /\ lastOp = "drained"
    /\ store.phase = "DECISION"
    /\ store.timer = TIMER_START
    /\ EnemyId \notin DOMAIN store.units
    /\ \E j \in 1 .. Len(before.queue) : before.queue[j].unitId = EnemyId

\* C18: setPhase('DECISION'), as the end of a drain calls it, sets every
\* unit's ap to min(maxAp, ap + apRecovery) with the unit's own apRecovery,
\* and setPhase('EXECUTION') raises no unit's ap.
C18_ApRecovery ==
    [][/\ lastOp' = "drained" =>
              \A id \in DOMAIN store'.units :
                  store'.units[id].ap =
                      Min(store.units[id].maxAp,
                          store.units[id].ap + store.units[id].apRecovery)
       /\ exec'.pc = "pending" =>
              \A id \in DOMAIN store'.units :
                  store'.units[id].ap <= store.units[id].ap]_vars

\* the unit a swing is aimed at
SwingTarget == exec.queue[exec.idx].targetUnitId

Untouched(id) ==
    /\ id \in DOMAIN store'.units
    /\ store'.units[id].hp = store.units[id].hp
    /\ store'.units[id].position = store.units[id].position

\* C19: the hit of a successful ATTACK is applyDamage(target, 1).  A target
\* whose hp minus 1 is at most 0 is removed from the unit map, and a removed
\* unit does not come back before the next initGame; any other target loses
\* exactly 1 hp and exactly one DamageEvent is appended; no other unit's hp
\* or position changes.
C19_AttackDamage ==
    [][/\ (exec.pc = "running" /\ exec.stage = "swing") =>
              /\ IF store.units[SwingTarget].hp - 1 <= 0
                 THEN SwingTarget \notin DOMAIN store'.units
                 ELSE /\ SwingTarget \in DOMAIN store'.units
                      /\ store'.units[SwingTarget].hp = store.units[SwingTarget].hp - 1
                      /\ store'.units[SwingTarget].position =
                             store.units[SwingTarget].position
                      /\ Len(store'.damageEvents) = Len(store.damageEvents) + 1
              /\ \A id \in DOMAIN store.units \ {SwingTarget} : Untouched(id)
       /\ \A id \in DOMAIN store'.units :
              id \notin DOMAIN store.units => \E seed \in Seeds : store' = NewGame[seed]]_vars

\* a hit has just removed its target
C19_TargetRemoved ==
    /\ exec.pc = "running"
    /\ exec.stage = "hit"
    /\ exec.queue[exec.idx].type = "ATTACK"
    /\ exec.queue[exec.idx].targetUnitId \notin DOMAIN store.units

\* C20: findPath returns no path that ends on a unit.  For start # end, when
\* the end tile holds a unit other than the mover, the revisions of findPath
\* that are given the units return nothing, whatever the mover's kind.
C20_NoPathOntoUnit ==
    (pf.kind \in {"obstacles", "units"} /\ pf.start # pf.end /\ pf.end = pf.other)
        => pf.path = NoPath

\* C21: the pass-through rule of findPath.  On a path returned to an ENEMY
\* no waypoint after the start is held by another unit; on a path returned
\* to the PLAYER a waypoint held by another unit is held by an ENEMY and is
\* not the last one (the search weighs that step 3.0).
C21_PassThrough ==
    (pf.kind \in {"obstacles", "units"} /\ pf.path # NoPath) =>
        \A i \in 2 .. Len(pf.path) :
            pf.path[i] = pf.other =>
                /\ pf.moverKind = "PLAYER"
                /\ pf.otherKind = "ENEMY"
                /\ i < Len(pf.path)

\* the step leaves a MOVE at its wait, having committed waypoint exec'.i - 1
MoveCommits == exec'.pc = "running" /\ exec'.stage = "move"

\* the step goes on with the MOVE that was waiting
MoveContinues ==
    /\ exec.pc = "running" /\ exec.stage = "move"
    /\ MoveCommits /\ exec'.idx = exec.idx

\* the units other than the mover standing on pos
Occupiers(units, moverId, pos) ==
    {id \in DOMAIN units \ {moverId} : units[id].position = pos}

\* the waiting MOVE's next waypoint is held by a unit the mover may not pass
MoveBlocked ==
    /\ exec.pc = "running" /\ exec.stage = "move"
    /\ exec.i <= Len(exec.path)
    /\ \E id \in Occupiers(store.units, exec.mover, exec.path[exec.i]) :
          ~ /\ store.units[exec.mover].type = "PLAYER"
            /\ store.units[id].type = "ENEMY"
            /\ exec.i < Len(exec.path)

AttackFirst(s, id) ==
    /\ s.units[id].position.floor = s.units[PlayerId].position.floor
    /\ getDist(s.units[id].position, s.units[PlayerId].position) = 1
    /\ s.units[id].ap >= AP(ATTACK_COST)
    /\ getDist(s.units[id].position, PredictedAt(s)) <= 1

\* C23: attack priority.  An enemy at Manhattan distance exactly 1 from its
\* target, with at least 3 AP and within distance 1 of the predicted target
\* position, gets exactly one intent from the pass: an ATTACK on the target
\* that costs 3, and no MOVE.
C23_AttackPriority ==
    ai.kind = "planned" =>
        \A id \in DOMAIN ai.state.units :
            (ai.state.units[id].faction = "ENEMY" /\ AttackFirst(ai.state, id)) =>
                IntentsOf(ai.plan.actions, id) =
                    <<Act("ATTACK", id, NoPos, PlayerId, AP(ATTACK_COST))>>

\* C23 witness: a pass over an enemy that stands next to a player who has
\* queued a MOVE and is predicted to stay within reach
C23_AttackPlanned ==
    /\ ai.kind = "planned"
    /\ AttackFirst(ai.state, EnemyId)
    /\ PredictedAt(ai.state) # ai.state.units[PlayerId].position
    /\ \E i \in DOMAIN ai.plan.actions : ai.plan.actions[i].type = "ATTACK"

\* the enemy's sensors as the claim states them: the player, on the enemy's
\* floor, is within the sight range or within the player's noise level
InSenseRange(s, id) ==
    /\ s.units[id].position.floor = s.units[PlayerId].position.floor
    /\ \/ getDist(s.units[id].position, s.units[PlayerId].position)
              <= s.units[id].sightRange
       \/ getDist(s.units[id].position, s.units[PlayerId].position)
              <= s.units[PlayerId].noiseLevel

\* C24: detection.  An enemy whose target is within its sight range, or
\* within the target's noise level, detects it whatever its facing and its
\* previous state: the pass leaves it in CHASE with lastKnownTargetPos set
\* to the predicted target position.
C24_Detection ==
    ai.kind = "planned" =>
        \A id \in DOMAIN ai.state.units :
            (ai.state.units[id].faction = "ENEMY" /\ InSenseRange(ai.state, id)) =>
                /\ ai.plan.units[id].memState = "CHASE"
                /\ ai.plan.units[id].lastKnownTargetPos = PredictedAt(ai.state)

\* the enemy's memory as a pair, state and last known position
MemoryOf(unit) == <<unit.memState, unit.lastKnownTargetPos>>

\* the enemy stands on the (x, y) of its last known target position
AtLastKnown(unit) ==
    /\ unit.lastKnownTargetPos # NoPos
    /\ unit.position.x = unit.lastKnownTargetPos.x
    /\ unit.position.y = unit.lastKnownTargetPos.y

\* the memory a pass without detection leaves behind
LostContact(unit) ==
    CASE unit.memState = "CHASE" -> <<"SEARCH", unit.lastKnownTargetPos>>
      [] unit.memState = "SEARCH" ->
            IF AtLastKnown(unit) THEN <<"WANDER", NoPos>>
            ELSE <<"SEARCH", unit.lastKnownTargetPos>>
      [] OTHER -> <<"WANDER", unit.lastKnownTargetPos>>

\* C25: loss of contact.  In a pass in which an enemy does not detect its
\* target, CHASE becomes SEARCH with lastKnownTargetPos kept; SEARCH becomes
\* WANDER with lastKnownTargetPos cleared exactly when the enemy's (x, y) is
\* that of lastKnownTargetPos, and stays SEARCH otherwise; WANDER stays WANDER.
C25_LossOfContact ==
    ai.kind = "planned" =>
        \A id \in DOMAIN ai.state.units :
            (/\ ai.state.units[id].faction = "ENEMY"
             /\ ai.state.units[id].memState \in {"CHASE", "SEARCH", "WANDER"}
             /\ ~Detected(ai.state.units[id], ai.state.units[PlayerId])) =>
                MemoryOf(ai.plan.units[id]) = LostContact(ai.state.units[id])

\* C25 witness: a searching enemy that reached the last known position
\* without detecting the player, and went back to WANDER
C25_SearchGivenUp ==
    /\ ai.kind = "planned"
    /\ ai.state.units[EnemyId].memState = "SEARCH"
    /\ AtLastKnown(ai.state.units[EnemyId])
    /\ ~Detected(ai.state.units[EnemyId], ai.state.units[PlayerId])
    /\ MemoryOf(ai.plan.units[EnemyId]) = <<"WANDER", NoPos>>

\* an enemy no pass has planned for yet, unhurt, with the player outside
\* the player's noise radius
StartsUnheard(s, id) ==
    /\ s.units[id].memState = "NONE"
    /\ s.units[id].hp = s.units[id].maxHp
    /\ getDist(s.units[id].position, s.units[PlayerId].position)
           > s.units[PlayerId].noiseLevel

\* C26: an enemy starts asleep, and an unhurt sleeping enemy whose target is
\* outside the target's noise radius stays asleep through a planning pass,
\* within sight range or not: the pass leaves its memory in none of the
\* waking states and emits no MOVE for it.
C26_SleepsUnheard ==
    ai.kind = "planned" =>
        \A id \in DOMAIN ai.state.units :
            (ai.state.units[id].faction = "ENEMY" /\ StartsUnheard(ai.state, id)) =>
                /\ ai.plan.units[id].memState \notin {"WANDER", "CHASE", "SEARCH"}
                /\ \A i \in DOMAIN ai.plan.actions :
                      ai.plan.actions[i].unitId = id =>
                          ai.plan.actions[i].type # "MOVE"

\* the prediction as the claim states it: the target of the player's queued
\* MOVE when no unit other than the player holds that tile, the player's
\* position otherwise
PredictedFree(s) ==
    LET playerAction == FirstMoveOf(s.actionQueue, PlayerId) IN
    IF /\ playerAction # << >>
       /\ playerAction[1].target # NoPos
       /\ Occupiers(s.units, PlayerId, playerAction[1].target) = {}
    THEN playerAction[1].target
    ELSE s.units[PlayerId].position

\* C27: prediction.  predictedTargetPos, which a detecting enemy records as
\* lastKnownTargetPos, is the target tile of the player's queued MOVE only
\* when that tile is held by no unit other than the player; with no queued
\* MOVE, or with the tile held by another unit, it is the player's current
\* position.
C27_Prediction ==
    ai.kind = "planned" =>
        \A id \in DOMAIN ai.state.units :
            (/\ ai.state.units[id].faction = "ENEMY"
             /\ Detected(ai.state.units[id], ai.state.units[PlayerId])) =>
                ai.plan.units[id].lastKnownTargetPos = PredictedFree(ai.state)

\* the (x, y) key of a tile
KeyOf(pos) == <<pos.x, pos.y>>

\* the reservation at place i of found is sound
ReservedWell(s, done, i) ==
    LET dest == done.found[i].dest
        validDest == done.found[i].validDest
    IN  IF validDest = NoPos
        THEN IntentsOf(done.actions, done.found[i].unitId) = << >>
        ELSE /\ \A j \in DOMAIN done.found :
                   (j # i /\ done.found[j].validDest # NoPos) =>
                       KeyOf(done.found[j].validDest) # KeyOf(validDest)
             /\ \A id \in DOMAIN s.units :
                   s.units[id].faction = "PLAYER" =>
                       KeyOf(s.units[id].position) # KeyOf(validDest)
             /\ InBounds(validDest.x, validDest.y)
             /\ Walkable(s.floor[0][validDest.x][validDest.y])
             /\ Abs(validDest.x - dest.x) <= 2
             /\ Abs(validDest.y - dest.y) <= 2

SameButMemory(unit, was) ==
    [unit EXCEPT !.memState = was.memState,
                 !.lastKnownTargetPos = was.lastKnownTargetPos] = was

\* C29: a planning pass changes no unit's ap, hp or position and no floor
\* tile; it writes only the enemies' memory and returns intents.  The AP is
\* debited when the intents are queued: queueing them takes from each unit
\* the cost of its intents, appends them to the queue and moves nothing.
C29_PlanWritesMemory ==
    ai.kind = "planned" =>
        LET queued == splice(ai.state, ai.plan) IN
        /\ DOMAIN ai.plan.units = DOMAIN ai.state.units
        /\ \A id \in DOMAIN ai.state.units :
              /\ SameButMemory(ai.plan.units[id], ai.state.units[id])
              /\ ai.state.units[id].faction = "PLAYER" =>
                     ai.plan.units[id] = ai.state.units[id]
              /\ queued.units[id] =
                     [ai.plan.units[id] EXCEPT
                         !.ap = @ - CostSum(IntentsOf(ai.plan.actions, id))]
        /\ queued.floor = ai.state.floor
        /\ queued.actionQueue = ai.state.actionQueue \o ai.plan.actions

\* C29 witness: a pass that changed the enemy's memory and planned intents
\* for it, the AP still what it was
C29_PlannedUndebited ==
    /\ ai.kind = "planned"
    /\ ai.plan.units[EnemyId].memState # ai.state.units[EnemyId].memState
    /\ CostSum(IntentsOf(ai.plan.actions, EnemyId)) > AP(ATTACK_COST)
    /\ ai.plan.units[EnemyId].ap = ai.state.units[EnemyId].ap

\* no PLAYER stands on the enemy's floor
NoTargetOnFloor(s, id) ==
    \A p \in DOMAIN s.units :
        s.units[p].faction = "PLAYER" =>
            s.units[p].position.floor # s.units[id].position.floor

\* C30: target selection is per floor.  An enemy with no PLAYER on its own
\* floor is skipped by the planning pass: it gets no intent and its memory
\* is left as it was.
C30_TargetOnFloor ==
    ai.kind = "planned" =>
        \A id \in DOMAIN ai.state.units :
            (ai.state.units[id].faction = "ENEMY"
                 /\ NoTargetOnFloor(ai.state, id)) =>
                /\ IntentsOf(ai.plan.actions, id) = << >>
                /\ ai.plan.units[id] = ai.state.units[id]

\* C31: under the phase controller the phase goes from DECISION to
\* EXECUTION only with the timer at 0 or below; the timer changes only
\* while the phase is DECISION, or when the end of a drain sets it back to
\* 5.0, and it never leaves [0, 5.0].
C31_TimerGate ==
    /\ [](store.timer >= 0 /\ store.timer <= TIMER_START)
    /\ [][/\ (store.phase = "DECISION" /\ store'.phase = "EXECUTION")
                 => store'.timer <= 0
          /\ store'.timer # store.timer
                 => \/ store.phase = "DECISION" /\ store'.timer < store.timer
                    \/ /\ InDrain /\ exec'.pc = "idle"
                       /\ store'.timer = TIMER_START
         ]_vars

\* C31 witness: the timer ran out over two frames and the loop entered
\* EXECUTION
C31_Expired ==
    /\ exec.pc = "pending"
    /\ store.phase = "EXECUTION"
    /\ store.timer = 0

\* what queueAction(action) makes of the store s, for an action with a cost
\* and a unit on the map
QueueActionContract(s, action) ==
    LET unit == s.units[action.unitId]
        next == queueAction(s, action)
    IN  IF action.cost > unit.ap
        THEN next = s
        ELSE /\ next.actionQueue = Append(s.actionQueue, action)
             /\ next.units[action.unitId] = [unit EXCEPT !.ap = unit.ap - action.cost]
             /\ \A id \in DOMAIN s.units \ {action.unitId} :
                   next.units[id] = s.units[id]
             /\ DOMAIN next.units = DOMAIN s.units
             /\ [next EXCEPT !.actionQueue = s.actionQueue, !.units = s.units] = s

\* C32: queueAction(a) with a.cost above the unit's ap is rejected, the
\* queue and every unit left exactly as they were; with 0 < a.cost <= ap it
\* appends a at the tail of the queue and lowers that unit's ap by exactly
\* a.cost, the other units unchanged.
C32_QueueActionGuard ==
    \A action \in HostActions :
        (action.cost > 0 /\ action.unitId \in DOMAIN store.units) =>
            QueueActionContract(store, action)

\* C32 witness: after an accepted queueAction the player has too little AP
\* left for a CLIMB, which the next call refuses
C32_NextRefused ==
    /\ lastOp = "queueAction"
    /\ before.cost > 0
    /\ PlayerAlive
    /\ store.units[PlayerId].ap < AP(CLIMB_COST)
    /\ queueAction(store, Act("CLIMB", PlayerId, NoPos, "", AP(CLIMB_COST))) = store

StepRule(q, t) ==
    CASE q.kind = "static" -> 0
      [] q.kind = "obstacles" ->
            IF \E b \in q.obstacles :
                  b.x = t[1] /\ b.y = t[2] /\ b.floor = q.start.floor
            THEN OccupiedCost ELSE 0
      [] OTHER ->
            LET occ == UnitsAt(QueryUnits(q), t[1], t[2], q.start.floor, MoverId(q))
            IN  IF occ = {} THEN 0
                ELSE IF t[1] = q.end.x /\ t[2] = q.end.y THEN -1
                ELSE IF q.moverKind = "PLAYER"
                        /\ \A id \in occ : QueryUnits(q)[id].type = "ENEMY"
                     THEN PassThroughCost
                     ELSE -1

\* the tiles in a row
TileAt(k) == <<(k - 1) \div MapHeight, (k - 1) % MapHeight>>
TileCount == MapWidth * MapHeight

\* what a step onto each tile costs whatever its direction (a surcharge),
\* 0 when the direction decides, -1 when the tile cannot be entered
RECURSIVE EntryCosts(_, _)
EntryCosts(q, k) ==
    IF k = 0 THEN << >>
    ELSE Append(EntryCosts(q, k - 1),
                IF ~Walkable(TileTypeAt(q.seed, TileAt(k)[1], TileAt(k)[2],
                                        q.start.floor))
                THEN -1 ELSE StepRule(q, TileAt(k)))

\* the cost of the step from tile u onto tile t, -1 when there is none
StepCost(entry, u, t) ==
    IF \/ Abs(TileAt(u)[1] - TileAt(t)[1]) > 1
       \/ Abs(TileAt(u)[2] - TileAt(t)[2]) > 1
       \/ u = t
       \/ entry[t] < 0
    THEN -1
    ELSE IF entry[t] > 0 THEN entry[t]
    ELSE IF TileAt(u)[1] # TileAt(t)[1] /\ TileAt(u)[2] # TileAt(t)[2]
         THEN AP(3) \div 2 ELSE AP(2) \div 2

\* more than any path costs
Unreached == (TileCount + 1) * (PassThroughCost + OccupiedCost)

MinOf(S) == CHOOSE m \in S : \A n \in S : m <= n

\* one round of relaxation: the cheapest known cost of the tiles 1 .. k
RECURSIVE Relaxed(_, _, _)
Relaxed(entry, dist, k) ==
    IF k = 0 THEN << >>
    ELSE Append(Relaxed(entry, dist, k - 1),
                MinOf({dist[k]} \cup
                      {dist[j] + StepCost(entry, j, k) :
                          j \in {i \in 1 .. TileCount :
                                    /\ dist[i] < Unreached
                                    /\ StepCost(entry, i, k) >= 0}}))

\* the cheapest cost from the start to every tile: relaxation to its fixpoint
RECURSIVE Cheapest(_, _)
Cheapest(entry, dist) ==
    LET next == Relaxed(entry, dist, TileCount)
    IN  IF next = dist THEN dist ELSE Cheapest(entry, next)

TileOf(pos) == CHOOSE k \in 1 .. TileCount : TileAt(k) = <<pos.x, pos.y>>

RECURSIVE StartDist(_, _)
StartDist(q, k) ==
    IF k = 0 THEN << >>
    ELSE Append(StartDist(q, k - 1),
                IF TileAt(k) = <<q.start.x, q.start.y>> THEN 0 ELSE Unreached)

CheapestTo(q) ==
    LET entry == EntryCosts(q, TileCount)
    IN  Cheapest(entry, StartDist(q, TileCount))[TileOf(q.end)]

RECURSIVE CostOf(_, _, _)
CostOf(entry, path, i) ==
    IF i > Len(path) THEN 0
    ELSE StepCost(entry, TileOf(path[i - 1]), TileOf(path[i]))
         + CostOf(entry, path, i + 1)

\* C34: a path findPath returns has the least total cost among the valid
\* paths from start to end, a straight step counted 1.0, a diagonal step
\* 1.5 and a step onto an occupied tile at its surcharged cost.
C34_CheapestPath ==
    (pf.kind \in {"static", "obstacles", "units"} /\ pf.path # NoPath) =>
        CostOf(EntryCosts(pf, TileCount), pf.path, 2) = CheapestTo(pf)

\* C34 witness: a returned path that pays a pass-through surcharge although
\* its end is not next to its start
C34_PaidSurcharge ==
    /\ pf.kind \in {"obstacles", "units"}
    /\ pf.path # NoPath
    /\ Len(pf.path) > 2
    /\ \E i \in 2 .. Len(pf.path) - 1 : pf.path[i] = pf.other

\* two units of the world s stand on the same (x, y, floor)
SharedTile(s) ==
    \E a, b \in DOMAIN s.units :
        a # b /\ s.units[a].position = s.units[b].position

\* C35: at the end of every Execution phase no two units of the unit map
\* occupy the same coordinate (x, y, floor), whatever MOVE, ATTACK and CLIMB
\* actions the drain executed.
C35_NoSharedTile ==
    lastOp = "drained" => ~SharedTile(store)

\* every unit of the world s stands on a tile of the map that can be walked on
UnitsOnWalkable(s) ==
    \A id \in DOMAIN s.units :
        LET pos == s.units[id].position
        IN  /\ pos.floor \in DOMAIN s.floor
            /\ pos.x \in Xs /\ pos.y \in Ys
            /\ Walkable(s.floor[pos.floor][pos.x][pos.y])

\* C36: in every reachable state every unit of the unit map stands on a tile
\* that is in bounds, on an existing floor and walkable, after every
\* committed MOVE step and every CLIMB.
C36_OnWalkable == UnitsOnWalkable(store)

\* the player has just been committed to the upper floor by a CLIMB
C36_ClimbedUp ==
    /\ exec.pc = "running" /\ exec.stage = "climb2"
    /\ exec.mover = PlayerId
    /\ PlayerAlive /\ PlayerPos.floor = 1

\* the memory of a unit is consistent: a last known target position exactly
\* in the states that pursue one
MemoryConsistent(unit) ==
    /\ unit.memState \in {"CHASE", "SEARCH"} => unit.lastKnownTargetPos # NoPos
    /\ unit.memState \in {"SLEEP", "WANDER"} => unit.lastKnownTargetPos = NoPos

\* C37: after every planning pass every enemy in CHASE or SEARCH has a
\* defined lastKnownTargetPos, every enemy in SLEEP or WANDER has none left
\* over, and no enemy that was not in SLEEP before the pass is in SLEEP after.
C37_MemoryConsistent ==
    ai.kind = "planned" =>
        \A id \in DOMAIN ai.plan.units :
            ai.plan.units[id].faction = "ENEMY" =>
                /\ ai.plan.units[id].memState \in {"SLEEP", "WANDER", "CHASE", "SEARCH"}
                /\ MemoryConsistent(ai.plan.units[id])
                /\ ai.state.units[id].memState # "SLEEP" =>
                       ai.plan.units[id].memState # "SLEEP"

\* a chasing enemy that lost the player: SEARCH, the last known position kept
C37_ChaseToSearch ==
    /\ ai.kind = "planned"
    /\ ai.state.units[EnemyId].memState = "CHASE"
    /\ ai.plan.units[EnemyId].memState = "SEARCH"
    /\ ai.plan.units[EnemyId].lastKnownTargetPos = ai.state.units[EnemyId].lastKnownTargetPos
    /\ ai.plan.units[EnemyId].lastKnownTargetPos # NoPos

\* C38: at most one execution drain is in progress at any time: from the
\* moment the phase is EXECUTION until endExecution the phase stays EXECUTION,
\* no frame of the timer loop issues another setPhase('EXECUTION'), and the
\* drain in progress keeps the queue it copied: no second executeTurn starts.
C38_OneDrain ==
    /\ [](InDrain => store.phase = "EXECUTION")
    /\ [](lastOp # "overlap")
    /\ [][exec.pc = "running" =>
            /\ exec'.pc \in {"running", "idle"}
            /\ exec'.pc = "running" => exec'.queue = exec.queue]_vars

\* a frame of the timer loop arrived between two suspension points of a
\* drain with the timer run out, and started nothing
C38_FrameInDrain ==
    /\ lastOp = "frameInDrain"
    /\ exec.pc = "running"
    /\ store.timer <= 0

CancelledWithRefund ==
    LET last == store.actionQueue[Len(store.actionQueue)] IN
    /\ store.actionQueue # << >>
    /\ store'.actionQueue = SubSeq(store.actionQueue, 1, Len(store.actionQueue) - 1)
    /\ store'.units[last.unitId].ap = store.units[last.unitId].ap + last.cost

\* C40: no AP is lost to a discarded intent.  While a drain runs the store's
\* queue is the queue the drain copied, so endExecution clears nothing the
\* drain does not hold; the drain ends having begun every action it copied;
\* and apart from that clear an action leaves the queue only by a cancel
\* that refunds its whole cost, whatever clicks and frames arrive between
\* the suspension points of the drain.
C40_NoIntentDropped ==
    /\ [](exec.pc = "running" => store.actionQueue = exec.queue)
    /\ [](lastOp = "drained" =>
            before.started = [k \in 1 .. Len(before.queue) |-> k])
    /\ [][store'.actionQueue # store.actionQueue =>
            \/ /\ Len(store'.actionQueue) > Len(store.actionQueue)
               /\ ~InDrain
            \/ InDrain /\ exec'.pc = "idle" /\ lastOp' = "drained"
            \/ ~InDrain /\ CancelledWithRefund]_vars

\* a click on a tile or on the climb button arrived between two suspension
\* points of a drain, with the player alive and AP for the action
C40_ClickInDrain ==
    /\ lastOp = "clickInDrain"
    /\ exec.pc = "running"
    /\ PlayerAlive
    /\ store.units[PlayerId].ap >= AP(CLIMB_COST)

====
